---- MODULE Spec2Model ----
(***************************************************************************)
(* A model of the agent core of theoria: the completion gateway            *)
(* (providers/__init__.py) and the phase graphs of the dialogue agent      *)
(* (agents/theoretikos.py), the literature-search agent                    *)
(* (agents/bibliographos.py) and the document-editing agent                *)
(* (agents/graphos.py).                                                    *)
(*                                                                         *)
(* Text is a sequence of one-character strings, so that substring search,  *)
(* slicing and the regular expressions of the code are computed, not       *)
(* assumed.                                                                *)
(***************************************************************************)
EXTENDS Integers, Sequences, FiniteSets, TLC

VARIABLES
    \* ---- completion gateway: one LLMClient.complete / LLMClient.stream call
    g_kind,        \* "none" | "complete" | "stream"
    g_pc,          \* "idle" | "attempt" | "streaming" | "sleeping" | "returned" | "raised"
    g_attempt,     \* the loop variable `attempt` of `for attempt in range(MAX_RETRIES)`
    g_delay,       \* the local `delay`
    g_last_error,  \* the local `last_error` (a classified error, or NoError)
    g_attempts,    \* history: acompletion calls made by this call
    g_sleeps,      \* history: durations passed to asyncio.sleep by this call
    g_result,      \* what the call gave its caller: NoError, "response", or the raised error
    g_src,         \* stream: chunks the current underlying stream has still to produce
    g_srcfail,     \* stream: the exception the current underlying stream ends with, or NoExc
    g_out,         \* stream: chunks yielded to the consumer by this call
    g_from,        \* history: for each chunk of g_out, the loop iteration that yielded it
    \* ---- dialogue agent: one Theoretikos.chat call at a time
    t_state,       \* the running DialogueState (the graph's channels; the result on return)
    t_arg,         \* the state object the caller passed to chat, as chat left it
    t_pc,          \* "idle" | "running" | "returned" | "raised" | "limit"
    t_node,        \* the phase the executor runs next
    t_trace,       \* history: phases executed in this run, in order
    t_calls,       \* history: completion calls issued in this run
    t_err,         \* the error class that aborted the run, or "none"
    t_prior,       \* history: the DialogueState the caller passed to this chat call
    t_input,       \* the user input of this chat call
    \* ---- router probe: a router applied to an arbitrary DialogueState
    r_which,       \* "none" | "clarify" | "challenge" | "synthesize"
    r_out,         \* the router's return value
    \* ---- literature-search agent: one Bibliographos.search call at a time
    s_state, s_arg, s_pc, s_node, s_trace, s_calls, s_err, s_prior, s_replies,
    \* ---- document-editing agent: one Graphos.edit call at a time
    e_state, e_pc, e_node, e_trace, e_calls, e_err, e_log,
    \* ---- orchestrator: one Orchestrator.chat call at a time
    o_state,       \* the running OrchestratorState (the graph's channels; the result on return)
    o_arg,         \* the state object the caller passed to chat, as the call left it
    o_pc,          \* "idle" | "running" | "returned" | "raised"
    o_node,        \* the phase the executor runs next
    o_trace,       \* history: phases started in this run, in order
    o_err,         \* the error class that aborted the run, or "none"
    o_prior,       \* history: the OrchestratorState the caller passed to this chat call
    o_input,       \* the user input of this chat call
    o_sub,         \* the sub-agent call a phase body is waiting for, or "none"
    \* ---- what the gateway gave the phase body that called it last
    c_last,        \* history: NoOutcome, Ok(reply) or Raise(class)
    \* ---- streaming entry points: one generator at a time
    x_entry,       \* "none" | "theoretikos" | "bibliographos" | "graphos" | "orchestrator"
    x_pc,          \* "idle" | "created" | "announced" | "streaming" | "done" | "raised" | "abandoned"
    x_arg,         \* the state object the caller passed, as the generator left it (or NoState)
    x_prior,       \* history: that state object when the generator was created
    x_input,       \* the user input, query or instruction of the call
    x_branch,      \* Orchestrator.stream_chat: "none" | "search" | "dialogue"
    x_query,       \* Orchestrator.stream_chat: the query handed to stream_search, or NoQuery
    x_src,         \* texts the client's stream has still to deliver
    x_end,         \* how the client's stream ends: "none" or an error class
    x_out,         \* history: texts yielded to the consumer
    \* ---- a pure function applied to an input
    p_fn,          \* "none" | "_classify_error" | "format_bibtex"
    p_in,          \* the argument
    p_out,         \* the value returned
    \* ---- LLMClient.complete calls in progress at the same time
    k_calls,       \* for each call, its locals and its history
    k_module,      \* the module-level names of providers/__init__.py the calls read
    \* ---- an interactive session (cli/sessions)
    n_kind,        \* "none" | "chat" | "search" | "research"
    n_pc,          \* "idle" | "streaming" | "done" | "raised"
    n_state,       \* self.state of the session (or NoState)
    n_prior,       \* history: self.state when the turn began
    n_input,       \* the user input of the turn
    n_sent,        \* history: the message list handed to LLMClient.stream in the turn
    n_src,         \* texts the stream has still to deliver
    n_end,         \* how the stream ends: "none" or an error class
    n_text         \* response_text

gvars == <<g_kind, g_pc, g_attempt, g_delay, g_last_error, g_attempts, g_sleeps,
           g_result, g_src, g_srcfail, g_out, g_from>>
tvars == <<t_state, t_arg, t_pc, t_node, t_trace, t_calls, t_err, t_prior, t_input>>
rvars == <<r_which, r_out>>
svars == <<s_state, s_arg, s_pc, s_node, s_trace, s_calls, s_err, s_prior, s_replies>>
evars == <<e_state, e_pc, e_node, e_trace, e_calls, e_err, e_log>>
ovars == <<o_state, o_arg, o_pc, o_node, o_trace, o_err, o_prior, o_input, o_sub>>
xvars == <<x_entry, x_pc, x_arg, x_prior, x_input, x_branch, x_query, x_src, x_end, x_out>>
pvars == <<p_fn, p_in, p_out>>
kvars == <<k_calls, k_module>>
nvars == <<n_kind, n_pc, n_state, n_prior, n_input, n_sent, n_src, n_end, n_text>>
vars == <<gvars, tvars, rvars, svars, evars, ovars, c_last, xvars, pvars, kvars, nvars>>

----------------------------------------------------------------------------
(* Text helpers: Python's str operations on sequences of characters.       *)

Range(s) == {s[i] : i \in 1..Len(s)}

\* s[a:b] of Python with 0 <= a, b taken as 0-based offsets (b exclusive).
Slice(s, a, b) == IF b <= a THEN <<>> ELSE SubSeq(s, a + 1, b)

\* True iff p occurs in s starting at 1-based position i.
OccursAt(s, p, i) ==
    /\ i >= 1
    /\ i + Len(p) - 1 <= Len(s)
    /\ \A k \in 1..Len(p) : s[i + k - 1] = p[k]

\* `p in s`
Contains(s, p) == \E i \in 1..(Len(s) + 1) : OccursAt(s, p, i)

\* s.index(p): the 0-based offset of the first occurrence (p must occur).
IndexOf(s, p) ==
    (CHOOSE i \in 1..(Len(s) + 1) :
        /\ OccursAt(s, p, i)
        /\ \A j \in 1..(i - 1) : ~OccursAt(s, p, j)) - 1

IsPrefix(p, s) == Len(p) <= Len(s) /\ SubSeq(s, 1, Len(p)) = p

UpperLetters ==
    <<"A", "B", "C", "D", "E", "F", "G", "H", "I", "J", "K", "L", "M", "N", "O", "P", "Q",
      "R", "S", "T", "U", "V", "W", "X", "Y", "Z">>

LowerLetters ==
    <<"a", "b", "c", "d", "e", "f", "g", "h", "i", "j", "k", "l", "m", "n", "o", "p", "q",
      "r", "s", "t", "u", "v", "w", "x", "y", "z">>

LowerChar(c) ==
    IF c \in Range(UpperLetters)
      THEN LowerLetters[CHOOSE i \in 1..Len(UpperLetters) : UpperLetters[i] = c]
      ELSE c

\* The text with each character replaced by its lower-case letter, position by
\* position: how re.IGNORECASE compares a text with a pattern written in lower case
\* (it also takes U+0130 and U+0131 for i, U+017F for s, U+212A for k).
FoldCase(s) ==
    [i \in 1..Len(s) |->
        IF s[i] \in {"U+0130", "U+0131"} THEN "i"
        ELSE IF s[i] = "U+017F" THEN "s"
        ELSE IF s[i] = "U+212A" THEN "k"
        ELSE LowerChar(s[i])]

\* str.lower() where it is not one character for one: U+0130 becomes i followed by
\* U+0307, the only character whose lower case is longer than itself.
RECURSIVE LowerExpanding(_)
LowerExpanding(s) ==
    IF s = <<>> THEN <<>>
    ELSE (IF Head(s) = "U+0130" THEN <<"i", "U+0307">> ELSE <<LowerChar(Head(s))>>)
         \o LowerExpanding(Tail(s))

\* str.lower()
Lower(s) ==
    IF "U+0130" \in Range(s) THEN LowerExpanding(s)
    ELSE [i \in 1..Len(s) |-> LowerChar(s[i])]

IsSpace(c) == c \in {" ", "\n", "\t"}

\* str.strip()
Strip(s) ==
    IF \A i \in 1..Len(s) : IsSpace(s[i]) THEN <<>>
    ELSE LET a == CHOOSE i \in 1..Len(s) :
                     ~IsSpace(s[i]) /\ \A j \in 1..(i - 1) : IsSpace(s[j])
             b == CHOOSE i \in 1..Len(s) :
                     ~IsSpace(s[i]) /\ \A j \in (i + 1)..Len(s) : IsSpace(s[j])
         IN SubSeq(s, a, b)

Message(role, content) == [role |-> role, content |-> content]

----------------------------------------------------------------------------
(* Completion gateway: providers/__init__.py                               *)

MAX_RETRIES == 3
RETRY_DELAY == 1
RETRY_MULTIPLIER == 2

NoError == [class |-> "none"]
NoExc == [type |-> "none"]
RateLimitError(retry_after) == [class |-> "RateLimitError", retry_after |-> retry_after]
NetworkError == [class |-> "NetworkError"]
AuthenticationError(provider) == [class |-> "AuthenticationError", provider |-> provider]
LLMError(original) == [class |-> "LLMError", original |-> original]

\* The exception types _classify_error tests with isinstance.
NetworkTypes == {"ConnectError", "TimeoutException", "ConnectionError", "TimeoutError"}

\* The retry-after header of an exception's response: absent (no response, or no such
\* header, or an empty one), present but rejected by float(), or a number of seconds.
NoHeader == [present |-> FALSE, parses |-> FALSE, secs |-> 0]
BadHeader == [present |-> TRUE, parses |-> FALSE, secs |-> 0]
Header(secs) == [present |-> TRUE, parses |-> TRUE, secs |-> secs]

\* Python's None and float values of retry_after.
None == [some |-> FALSE, secs |-> 0]
Some(secs) == [some |-> TRUE, secs |-> secs]

\* An exception raised by the completion service: its type, its text str(error), and
\* the retry-after header of its response.
Exc(type, text, header) == [type |-> type, text |-> text, header |-> header]

\* Seconds a provider may put in the retry-after header.
RetryAfterSample == 5

Exceptions ==
    { Exc("Exception", <<"R", "a", "t", "e", " ", "l", "i", "m", "i", "t">>, NoHeader),
      Exc("Exception", <<"R", "a", "t", "e", " ", "l", "i", "m", "i", "t">>, Header(RetryAfterSample)),
      Exc("Exception", <<"R", "a", "t", "e", " ", "l", "i", "m", "i", "t">>, Header(0)),
      Exc("Exception", <<"R", "a", "t", "e", " ", "l", "i", "m", "i", "t">>, BadHeader),
      Exc("TimeoutError", <<"r", "a", "t", "e", " ", "l", "i", "m", "i", "t", " ", "t", "i", "m", "e", "o",
        "u", "t">>, NoHeader),
      Exc("ConnectError", <<>>, NoHeader),
      Exc("Exception", <<"N", "e", "t", "w", "o", "r", "k">>, NoHeader),
      Exc("Exception", <<"A", "P", "I", " ", "k", "e", "y">>, NoHeader),
      Exc("Exception", <<"r", "a", "t", "e">>, NoHeader),
      Exc("Exception", <<>>, NoHeader) }

\* Exceptions an underlying stream may raise while it is being consumed.
StreamFailures ==
    { Exc("Exception", <<"R", "a", "t", "e", " ", "l", "i", "m", "i", "t">>, NoHeader),
      Exc("ConnectError", <<>>, NoHeader),
      Exc("Exception", <<>>, NoHeader) }

\* retry_after as _classify_error computes it: None unless the header is present and
\* float() accepts it.
ParseRetryAfter(header) ==
    IF header.present /\ header.parses THEN Some(header.secs) ELSE None

ClassifyErrorTypeFirst(e) ==
    LET error_str == Lower(e.text) IN
    IF e.type \in NetworkTypes THEN NetworkError
    ELSE IF Contains(error_str, <<"r", "a", "t", "e">>) /\ Contains(error_str, <<"l", "i", "m", "i", "t">>)
        THEN RateLimitError(ParseRetryAfter(e.header))
    ELSE IF \/ Contains(error_str, <<"c", "o", "n", "n", "e", "c", "t", "i", "o", "n">>)
            \/ Contains(error_str, <<"t", "i", "m", "e", "o", "u", "t">>)
            \/ Contains(error_str, <<"n", "e", "t", "w", "o", "r", "k">>)
        THEN NetworkError
    ELSE IF Contains(error_str, <<"a", "p", "i">>) /\ Contains(error_str, <<"k", "e", "y">>)
        THEN AuthenticationError("unknown")
    ELSE LLMError(e)

\* _classify_error
ClassifyError(e) ==
    LET error_str == Lower(e.text) IN
    IF Contains(error_str, <<"r", "a", "t", "e">>) /\ Contains(error_str, <<"l", "i", "m", "i", "t">>)
        THEN RateLimitError(ParseRetryAfter(e.header))
    ELSE IF e.type \in NetworkTypes THEN NetworkError
    ELSE IF \/ Contains(error_str, <<"c", "o", "n", "n", "e", "c", "t", "i", "o", "n">>)
            \/ Contains(error_str, <<"t", "i", "m", "e", "o", "u", "t">>)
            \/ Contains(error_str, <<"n", "e", "t", "w", "o", "r", "k">>)
        THEN NetworkError
    ELSE IF Contains(error_str, <<"a", "p", "i">>) /\ Contains(error_str, <<"k", "e", "y">>)
        THEN AuthenticationError("unknown")
    ELSE LLMError(e)

\* The value of a variable that holds no argument or result yet.
NoInput == [none |-> TRUE]

\* Texts of exceptions handed to _classify_error.
ClassifyTexts ==
    { <<>>, <<"R", "a", "t", "e", " ", "L", "i", "m", "i", "t">>, <<"r", "a", "t", "e">>, <<"l", "i", "m", "i", "t", " ", "T", "i", "m", "e", "o", "u", "t", " ", "r", "a",
        "t", "e">>, <<"C", "o", "n", "n", "e", "c", "t", "i", "o", "n">>,
      <<"T", "I", "M", "E", "O", "U", "T">>, <<"n", "e", "t", "w", "o", "r", "k", " ", "a", "p", "i", " ", "k", "e", "y">>, <<"A", "P", "I", " ", "K", "e", "y">>, <<"k", "e", "y">>, <<"r", "a", "t", "e", " ", "l", "i", "m", "i", "t", " ", "a", "p", "i", " ", "k",
        "e", "y">> }

\* Exceptions handed to _classify_error: any type, any text, any retry-after header.
ClassifyInputs ==
    [type : {"Exception"} \cup NetworkTypes,
     text : ClassifyTexts,
     header : {NoHeader, BadHeader, Header(RetryAfterSample), Header(0)}]

ProbeFrame == UNCHANGED <<gvars, tvars, rvars, svars, evars, ovars, c_last, xvars, kvars, nvars>>

\* _classify_error(error)
P_ClassifyError(error) ==
    /\ p_fn' = "_classify_error"
    /\ p_in' = error
    /\ p_out' = ClassifyError(error)
    /\ ProbeFrame

NextClassify == \E error \in ClassifyInputs : P_ClassifyError(error)

\* `classified.retry_after or delay`: None and 0.0 are falsy.
WaitTime(classified, delay) ==
    IF classified.retry_after.some /\ classified.retry_after.secs # 0
        THEN classified.retry_after.secs ELSE delay

RetryableAlways(classified, attempt) ==
    classified.class \in {"RateLimitError", "NetworkError"}

RetryableAnyClass(classified, attempt) ==
    \/ classified.class = "RateLimitError"
    \/ attempt < MAX_RETRIES - 1

RetryableNetworkOnly(classified, attempt) ==
    classified.class = "NetworkError" /\ attempt < MAX_RETRIES - 1

\* The except clause's decision to sleep and go round the loop again (True) or raise.
Retryable(classified, attempt) ==
    \/ classified.class = "RateLimitError"
    \/ classified.class = "NetworkError" /\ attempt < MAX_RETRIES - 1

NextDelayAfterDefaultOnly(delay, classified) ==
    IF classified.class = "RateLimitError" /\ classified.retry_after.some
        THEN delay ELSE delay * RETRY_MULTIPLIER

\* `delay *= RETRY_MULTIPLIER`, after the sleep that followed the failure `classified`.
NextDelay(delay, classified) == delay * RETRY_MULTIPLIER

RangeHasNextOffByOne(attempt) == attempt + 1 <= MAX_RETRIES

\* `for attempt in range(MAX_RETRIES)`: is there an iteration after this one?
RangeHasNext(attempt) == attempt + 1 < MAX_RETRIES

\* A chunk of the underlying stream: has it choices and a delta, its delta.content
\* (<<>> for None or ""), its finish_reason ("none" for None).
Chunk(has_delta, content, finish) ==
    [has_delta |-> has_delta, content |-> content, finish |-> finish]

StreamChunk(content, finish) == [content |-> content, finish_reason |-> finish]

\* Longest underlying stream the model lets one attempt produce.
MaxChunks == 2

ChunkSamples ==
    { Chunk(TRUE, <<"a">>, "none"),
      Chunk(TRUE, <<>>, "stop"),
      Chunk(TRUE, <<>>, "none"),
      Chunk(FALSE, <<>>, "none") }

RECURSIVE SeqsUpTo(_, _)
SeqsUpTo(S, n) ==
    IF n = 0 THEN {<<>>}
    ELSE LET shorter == SeqsUpTo(S, n - 1)
         IN shorter \cup {Append(q, x) : q \in {p \in shorter : Len(p) = n - 1}, x \in S}

\* The stream generator's filter: which chunks reach the consumer.
Yields(chunk) ==
    chunk.has_delta /\ (chunk.content # <<>> \/ chunk.finish # "none")

\* What a step of one component leaves alone: the other components.
GatewayFrame == UNCHANGED <<t_state, t_arg, t_pc, t_node, t_trace, t_calls, t_err, t_prior,
                            t_input, r_which, r_out, s_state, s_arg, s_pc, s_node, s_trace,
                            s_calls, s_err, s_prior, s_replies, e_state, e_pc, e_node,
                            e_trace, e_calls, e_err, e_log, ovars, c_last, xvars, pvars,
        kvars, nvars>>

\* Entering complete() or stream(): the locals before the loop.
G_Call(kind) ==
    /\ g_pc \in {"idle", "returned", "raised"}
    /\ g_kind' = kind
    /\ g_pc' = "attempt"
    /\ g_attempt' = 0
    /\ g_delay' = RETRY_DELAY
    /\ g_last_error' = NoError
    /\ g_attempts' = 0
    /\ g_sleeps' = <<>>
    /\ g_result' = NoError
    /\ g_src' = <<>>
    /\ g_srcfail' = NoExc
    /\ g_out' = <<>>
    /\ g_from' = <<>>
    /\ GatewayFrame

\* The except clause, entered with exception e during iteration g_attempt.
Handle(e) ==
    LET classified == ClassifyError(e) IN
    /\ g_last_error' = classified
    /\ IF Retryable(classified, g_attempt)
         THEN /\ g_pc' = "sleeping"
              /\ g_sleeps' = Append(g_sleeps,
                    IF classified.class = "RateLimitError"
                        THEN WaitTime(classified, g_delay) ELSE g_delay)
              /\ g_result' = g_result
         ELSE /\ g_pc' = "raised"
              /\ g_sleeps' = g_sleeps
              /\ g_result' = classified

\* complete(): acompletion returns a response; the call returns it.
G_CompleteOk ==
    /\ g_pc = "attempt" /\ g_kind = "complete"
    /\ g_attempts' = g_attempts + 1
    /\ g_pc' = "returned"
    /\ g_result' = [class |-> "response"]
    /\ UNCHANGED <<g_kind, g_attempt, g_delay, g_last_error, g_sleeps, g_src, g_srcfail, g_out, g_from>>
    /\ GatewayFrame

\* complete() or stream(): acompletion itself raises e.
G_AttemptFail(e) ==
    /\ g_pc = "attempt"
    /\ g_attempts' = g_attempts + 1
    /\ Handle(e)
    /\ UNCHANGED <<g_kind, g_attempt, g_delay, g_src, g_srcfail, g_out, g_from>>
    /\ GatewayFrame

\* stream(): acompletion(stream=True) returns an iterator that will produce `chunks`
\* and then end normally (fail = NoExc) or raise `fail`.
G_StreamOpen(chunks, fail) ==
    /\ g_pc = "attempt" /\ g_kind = "stream"
    /\ g_attempts' = g_attempts + 1
    /\ g_pc' = "streaming"
    /\ g_src' = chunks
    /\ g_srcfail' = fail
    /\ UNCHANGED <<g_kind, g_attempt, g_delay, g_last_error, g_sleeps, g_result, g_out, g_from>>
    /\ GatewayFrame

\* stream(): one iteration of `async for chunk in response`.
G_StreamChunk ==
    /\ g_pc = "streaming" /\ g_src # <<>>
    /\ g_src' = Tail(g_src)
    /\ g_out' = IF Yields(Head(g_src))
                  THEN Append(g_out, StreamChunk(Head(g_src).content, Head(g_src).finish))
                  ELSE g_out
    /\ g_from' = IF Yields(Head(g_src)) THEN Append(g_from, g_attempt) ELSE g_from
    /\ UNCHANGED <<g_kind, g_pc, g_attempt, g_delay, g_last_error, g_attempts, g_sleeps,
                   g_result, g_srcfail>>
    /\ GatewayFrame

\* stream(): the underlying stream is exhausted; `return`.
G_StreamEnd ==
    /\ g_pc = "streaming" /\ g_src = <<>> /\ g_srcfail = NoExc
    /\ g_pc' = "returned"
    /\ g_result' = [class |-> "response"]
    /\ UNCHANGED <<g_kind, g_attempt, g_delay, g_last_error, g_attempts, g_sleeps, g_src,
                   g_srcfail, g_out, g_from>>
    /\ GatewayFrame

\* stream(): the underlying stream raises while being consumed.
G_StreamFail ==
    /\ g_pc = "streaming" /\ g_src = <<>> /\ g_srcfail # NoExc
    /\ Handle(g_srcfail)
    /\ g_srcfail' = NoExc
    /\ UNCHANGED <<g_kind, g_attempt, g_delay, g_attempts, g_src, g_out, g_from>>
    /\ GatewayFrame

\* asyncio.sleep returns: `delay *= RETRY_MULTIPLIER`, then the next iteration of the
\* loop, or, after the last one, the raise of last_error that follows the loop.
G_Wake ==
    /\ g_pc = "sleeping"
    /\ g_delay' = NextDelay(g_delay, g_last_error)
    /\ IF RangeHasNext(g_attempt)
         THEN /\ g_attempt' = g_attempt + 1
              /\ g_pc' = "attempt"
              /\ g_result' = g_result
         ELSE /\ g_attempt' = g_attempt
              /\ g_pc' = "raised"
              /\ g_result' = g_last_error
    /\ UNCHANGED <<g_kind, g_last_error, g_attempts, g_sleeps, g_src, g_srcfail, g_out, g_from>>
    /\ GatewayFrame

NextGateway ==
    \/ \E kind \in {"complete", "stream"} : G_Call(kind)
    \/ G_CompleteOk
    \/ \E e \in Exceptions : G_AttemptFail(e)
    \/ \E chunks \in SeqsUpTo(ChunkSamples, MaxChunks), fail \in StreamFailures \cup {NoExc} :
            G_StreamOpen(chunks, fail)
    \/ G_StreamChunk
    \/ G_StreamEnd
    \/ G_StreamFail
    \/ G_Wake

----------------------------------------------------------------------------
(* LLMClient.complete calls that interleave at their await points: each    *)
(* call has its own locals; the module-level names are only read.          *)

\* The callers whose complete() calls may be in progress at the same time, and the
\* clients they call.
Callers == {"a", "b"}
Clients == {"client1", "client2"}

\* MAX_RETRIES, RETRY_DELAY and RETRY_MULTIPLIER as the module holds them.
ModuleNames ==
    [MAX_RETRIES |-> MAX_RETRIES, RETRY_DELAY |-> RETRY_DELAY,
     RETRY_MULTIPLIER |-> RETRY_MULTIPLIER]

\* The locals of a complete() call (attempt, delay, last_error) and its history.
IdleCall ==
    [pc |-> "idle", client |-> "none", attempt |-> 0, delay |-> RETRY_DELAY,
     last_error |-> NoError, attempts |-> 0, sleeps |-> <<>>, failures |-> <<>>,
     result |-> NoError]

\* Exceptions acompletion raises in the interleaved calls.
ConcurrentFailures ==
    { Exc("Exception", <<"r", "a", "t", "e", " ", "l", "i", "m", "i", "t">>, NoHeader),
      Exc("Exception", <<"r", "a", "t", "e", " ", "l", "i", "m", "i", "t">>,
          Header(RetryAfterSample)),
      Exc("ConnectError", <<>>, NoHeader),
      Exc("Exception", <<>>, NoHeader) }

ModuleAfterBackoffShared(module, delay) == [module EXCEPT !.RETRY_DELAY = delay]

\* The module-level names after `delay *= RETRY_MULTIPLIER`: delay is a local of the
\* call, no module-level name is assigned.
ModuleAfterBackoff(module, delay) == module

ConcurrentFrame == UNCHANGED <<gvars, tvars, rvars, svars, evars, ovars, c_last, xvars, pvars, nvars>>

\* Entering complete(): the locals before the loop.
K_Call(c, client) ==
    /\ k_calls[c].pc \in {"idle", "returned", "raised"}
    /\ k_calls' = [k_calls EXCEPT ![c] =
          [IdleCall EXCEPT !.pc = "attempt", !.client = client,
                           !.delay = k_module.RETRY_DELAY]]
    /\ UNCHANGED k_module
    /\ ConcurrentFrame

\* acompletion returns a response; the call returns it.
K_CompleteOk(c) ==
    /\ k_calls[c].pc = "attempt"
    /\ k_calls' = [k_calls EXCEPT ![c].attempts = @ + 1, ![c].pc = "returned",
                                  ![c].result = [class |-> "response"]]
    /\ UNCHANGED k_module
    /\ ConcurrentFrame

\* acompletion raises e: the except clause up to its sleep or its raise.
K_AttemptFail(c, e) ==
    LET call == k_calls[c]
        classified == ClassifyError(e)
    IN /\ call.pc = "attempt"
       /\ k_calls' = [k_calls EXCEPT ![c] =
             IF Retryable(classified, call.attempt)
               THEN [call EXCEPT !.attempts = @ + 1,
                                 !.failures = Append(@, classified),
                                 !.last_error = classified,
                                 !.pc = "sleeping",
                                 !.sleeps = Append(@,
                                     IF classified.class = "RateLimitError"
                                       THEN WaitTime(classified, call.delay)
                                       ELSE call.delay)]
               ELSE [call EXCEPT !.attempts = @ + 1,
                                 !.failures = Append(@, classified),
                                 !.last_error = classified,
                                 !.pc = "raised",
                                 !.result = classified]]
       /\ UNCHANGED k_module
       /\ ConcurrentFrame

\* asyncio.sleep returns: `delay *= RETRY_MULTIPLIER`, then the next iteration of the
\* loop, or `raise last_error` after the last one.
K_Wake(c) ==
    LET call == k_calls[c]
        delay == NextDelay(call.delay, call.last_error)
    IN /\ call.pc = "sleeping"
       /\ k_calls' = [k_calls EXCEPT ![c] =
             IF RangeHasNext(call.attempt)
               THEN [call EXCEPT !.delay = delay, !.attempt = @ + 1, !.pc = "attempt"]
               ELSE [call EXCEPT !.delay = delay, !.pc = "raised",
                                 !.result = call.last_error]]
       /\ k_module' = ModuleAfterBackoff(k_module, delay)
       /\ ConcurrentFrame

NextConcurrent ==
    \/ \E c \in Callers, client \in Clients : K_Call(c, client)
    \/ \E c \in Callers : K_CompleteOk(c)
    \/ \E c \in Callers, e \in ConcurrentFailures : K_AttemptFail(c, e)
    \/ \E c \in Callers : K_Wake(c)

----------------------------------------------------------------------------
(* What a phase body sees of one `await self.client.complete(...)`: the    *)
(* reply text, or one of the four errors the gateway raises.               *)

GatewayErrors == {"RateLimitError", "NetworkError", "AuthenticationError", "LLMError"}

Ok(reply) == [ok |-> TRUE, reply |-> reply]
Raise(class) == [ok |-> FALSE, class |-> class]

NoOutcome == [ok |-> FALSE, class |-> "none"]

Outcomes(replies) == {Ok(r) : r \in replies} \cup {Raise(c) : c \in GatewayErrors}

\* Steps the graph executor lets one run take before it aborts the run.
RecursionLimit == 5

----------------------------------------------------------------------------
(* Dialogue agent: agents/theoretikos.py                                   *)

DialoguePhases == {"clarify", "challenge", "synthesize", "end"}

\* len(objections) at which _route_from_challenge leaves the challenge loop.
ObjectionsNeeded == 3

DefaultDialogueState ==
    [messages |-> <<>>, phase |-> "clarify", thesis |-> <<>>,
     objections |-> <<>>, refinements |-> <<>>]

\* Most objections a state handed to chat already holds.
MaxPriorObjections == 4

\* Chat calls are started only while the history is shorter than this.
MaxHistory == 2

PriorObjection == <<"o">>

DialogueStates ==
    [messages : {<<>>, <<Message("user", <<"h", "i">>)>>},
     phase : DialoguePhases,
     thesis : {<<>>, <<"A">>},
     objections : {[i \in 1..k |-> PriorObjection] : k \in 0..MaxPriorObjections},
     refinements : {<<>>}]

ThesisMarker == <<"t", "h", "e", "s", "i", "s", ":">>

UserInputs ==
    { <<"h", "i">>,
      <<"T", "h", "e", "s", "i", "s", ":", " ", "B", " ">>,
      <<"a", " ", "t", "h", "e", "s", "i", "s", ":", "A", " ", "T", "H", "E", "S", "I", "S", ":", "B">>,
      <<"t", "h", "e", "s", "i", "s", ":", " ">>,
      <<"U+0130", "t", "h", "e", "s", "i", "s", ":", "a", "b">> }

DialogueReplies == {<<"r">>, <<>>}

RouteFromClarifyNoLoop(state) ==
    IF state.phase = "end" THEN "end" ELSE "challenge"

RouteFromClarifyThesisFirst(state) ==
    IF state.thesis # <<>> THEN "challenge"
    ELSE IF state.phase = "end" THEN "end"
    ELSE "clarify"

RouteFromClarify(state) ==
    IF state.phase = "end" THEN "end"
    ELSE IF state.thesis # <<>> THEN "challenge"
    ELSE "clarify"

RouteFromChallengeStrict(state) ==
    IF state.phase = "end" THEN "end"
    ELSE IF Len(state.objections) > ObjectionsNeeded THEN "synthesize"
    ELSE "challenge"

RouteFromChallengeOneShort(state) ==
    IF state.phase = "end" THEN "end"
    ELSE IF Len(state.objections) >= ObjectionsNeeded - 1 THEN "synthesize"
    ELSE "challenge"

RouteFromChallenge(state) ==
    IF state.phase = "end" THEN "end"
    ELSE IF Len(state.objections) >= ObjectionsNeeded THEN "synthesize"
    ELSE "challenge"

RouteFromSynthesize(state) ==
    IF state.phase = "end" THEN "end" ELSE "clarify"

\* The update maps the phase bodies return, merged key by key into the state.
ClarifyUpdateTracksPhase(state, reply) ==
    [state EXCEPT !.messages = Append(state.messages, Message("assistant", reply)),
                  !.phase = "clarify"]

ClarifyUpdate(state, reply) ==
    [state EXCEPT !.messages = Append(state.messages, Message("assistant", reply))]

ChallengeUpdateNewestFirst(state, reply) ==
    [state EXCEPT !.messages = Append(state.messages, Message("assistant", reply)),
                  !.objections = <<reply>> \o state.objections]

ChallengeUpdate(state, reply) ==
    [state EXCEPT !.messages = Append(state.messages, Message("assistant", reply)),
                  !.objections = Append(state.objections, reply)]

SynthesizeUpdate(state, reply) ==
    [state EXCEPT !.messages = Append(state.messages, Message("assistant", reply)),
                  !.refinements = Append(state.refinements, reply)]

\* chat() before the graph runs: the user turn is appended and the thesis extracted.
ChatPrepare(state, user_input) ==
    LET withTurn == [state EXCEPT !.messages =
                         Append(state.messages, Message("user", user_input))]
    IN IF state.thesis = <<>> /\ Contains(Lower(user_input), ThesisMarker)
         THEN [withTurn EXCEPT !.thesis =
                  Strip(Slice(user_input,
                              IndexOf(Lower(user_input), ThesisMarker) + 7,
                              Len(user_input)))]
         ELSE withTurn

DialogueFrame == UNCHANGED <<g_kind, g_pc, g_attempt, g_delay, g_last_error, g_attempts,
                             g_sleeps, g_result, g_src, g_srcfail, g_out, g_from, r_which, r_out,
                             s_state, s_arg, s_pc, s_node, s_trace, s_calls, s_err, s_prior,
                             s_replies, e_state, e_pc, e_node, e_trace, e_calls, e_err,
                             e_log, ovars, xvars, pvars,
        kvars, nvars>>

\* The state a caller hands to the next chat call: the returned state, or, after a
\* run that raised, the object it passed before.
T_Threaded == IF t_pc \in {"idle", "returned"} THEN t_state ELSE t_arg

T_ChatOnCopy(user_input) ==
    /\ t_pc # "running"
    /\ Len(T_Threaded.messages) < MaxHistory
    /\ t_prior' = T_Threaded
    /\ t_input' = user_input
    /\ t_arg' = T_Threaded
    /\ t_state' = ChatPrepare(T_Threaded, user_input)
    /\ t_pc' = "running"
    /\ t_node' = "clarify"
    /\ t_trace' = <<>>
    /\ t_calls' = 0
    /\ t_err' = "none"
    /\ UNCHANGED c_last
    /\ DialogueFrame

\* Theoretikos.chat up to the start of the graph run (entry point clarify).
T_Chat(user_input) ==
    /\ t_pc # "running"
    /\ Len(T_Threaded.messages) < MaxHistory
    /\ t_prior' = T_Threaded
    /\ t_input' = user_input
    /\ t_arg' = ChatPrepare(T_Threaded, user_input)
    /\ t_state' = ChatPrepare(T_Threaded, user_input)
    /\ t_pc' = "running"
    /\ t_node' = "clarify"
    /\ t_trace' = <<>>
    /\ t_calls' = 0
    /\ t_err' = "none"
    /\ UNCHANGED c_last
    /\ DialogueFrame

\* One step of the run: phase body `node` with completion outcome o, the merge of its
\* update, and its router; "end" is the terminal marker END.
T_Step(node, o, updated, next) ==
    /\ t_pc = "running" /\ t_node = node
    /\ Len(t_trace) < RecursionLimit
    /\ t_trace' = Append(t_trace, node)
    /\ t_calls' = t_calls + 1
    /\ c_last' = o
    /\ IF o.ok
         THEN /\ t_state' = updated
              /\ t_node' = next
              /\ t_pc' = IF next = "end" THEN "returned" ELSE "running"
              /\ t_err' = t_err
         ELSE /\ t_state' = t_state
              /\ t_node' = t_node
              /\ t_pc' = "raised"
              /\ t_err' = o.class
    /\ UNCHANGED <<t_arg, t_prior, t_input>>
    /\ DialogueFrame

T_Clarify(o) ==
    LET updated == IF o.ok THEN ClarifyUpdate(t_state, o.reply) ELSE t_state
    IN T_Step("clarify", o, updated, RouteFromClarify(updated))

T_Challenge(o) ==
    LET updated == IF o.ok THEN ChallengeUpdate(t_state, o.reply) ELSE t_state
    IN T_Step("challenge", o, updated, RouteFromChallenge(updated))

T_Synthesize(o) ==
    LET updated == IF o.ok THEN SynthesizeUpdate(t_state, o.reply) ELSE t_state
    IN T_Step("synthesize", o, updated, RouteFromSynthesize(updated))

\* The executor gives up on a run that has not reached END within its step limit.
T_Limit ==
    /\ t_pc = "running"
    /\ Len(t_trace) >= RecursionLimit
    /\ t_pc' = "limit"
    /\ UNCHANGED <<t_state, t_arg, t_node, t_trace, t_calls, t_err, t_prior, t_input, c_last>>
    /\ DialogueFrame

NextDialogue ==
    \/ \E user_input \in UserInputs : T_Chat(user_input)
    \/ \E o \in Outcomes(DialogueReplies) : T_Clarify(o)
    \/ \E o \in Outcomes(DialogueReplies) : T_Challenge(o)
    \/ \E o \in Outcomes(DialogueReplies) : T_Synthesize(o)
    \/ T_Limit

----------------------------------------------------------------------------
(* The three routers of the dialogue graph as functions of an arbitrary    *)
(* DialogueState.                                                          *)

RouterFrame == UNCHANGED <<g_kind, g_pc, g_attempt, g_delay, g_last_error, g_attempts,
                           g_sleeps, g_result, g_src, g_srcfail, g_out, g_from, t_state, t_arg, t_pc,
                           t_node, t_trace, t_calls, t_err, t_prior, t_input, s_state, s_arg,
                           s_pc, s_node, s_trace, s_calls, s_err, s_prior, s_replies, e_state,
                           e_pc, e_node, e_trace, e_calls, e_err, e_log, ovars, c_last, xvars, pvars,
        kvars, nvars>>

R_Route(which) ==
    /\ r_which = "none"
    /\ r_which' = which
    /\ r_out' = CASE which = "clarify" -> RouteFromClarify(t_state)
                  [] which = "challenge" -> RouteFromChallenge(t_state)
                  [] which = "synthesize" -> RouteFromSynthesize(t_state)
    /\ RouterFrame

NextRouter == \E which \in {"clarify", "challenge", "synthesize"} : R_Route(which)

----------------------------------------------------------------------------
(* Literature-search agent: agents/bibliographos.py                        *)

SearchPhases == {"search", "extract", "validate", "end"}

DefaultSearchState ==
    [messages |-> <<>>, query |-> <<>>, phase |-> "search", search_results |-> <<>>,
     citations |-> <<>>, bib_entries |-> <<>>]

\* Most BibTeX blocks a state handed to search already holds.
MaxPriorBib == 1

\* Search calls are started only on a history no longer than this.
MaxSearchHistory == 4

PriorBib == <<"@", "p">>

SearchStates ==
    [messages : {<<>>, <<Message("user", <<"q">>), Message("assistant", <<"r">>)>>},
     query : {<<>>, <<"q">>},
     phase : SearchPhases,
     search_results : {<<>>},
     citations : {<<>>},
     bib_entries : {[i \in 1..k |-> PriorBib] : k \in 0..MaxPriorBib}]

Queries == {<<"q">>, <<"x", "y">>}

SearchReplies == {<<"@", "a">>, <<>>}

RouteFromSearch(state) == IF state.phase = "end" THEN "end" ELSE "extract"

RouteFromExtract(state) == IF state.phase = "end" THEN "end" ELSE "validate"

RouteFromValidate(state) == "end"

SearchUpdateKeepsPhase(state, reply) ==
    [state EXCEPT !.messages = Append(state.messages, Message("assistant", reply))]

SearchUpdate(state, reply) ==
    [state EXCEPT !.messages = Append(state.messages, Message("assistant", reply)),
                  !.phase = "extract"]

ExtractUpdate(state, reply) ==
    [state EXCEPT !.messages = Append(state.messages, Message("assistant", reply)),
                  !.phase = "validate"]

ValidateUpdate(state, reply) ==
    [state EXCEPT !.messages = Append(state.messages, Message("assistant", reply)),
                  !.bib_entries = Append(state.bib_entries, reply),
                  !.phase = "end"]

\* search() before the graph runs: the query is recorded and the user turn appended.
SearchPrepare(state, query) ==
    [state EXCEPT !.query = query,
                  !.messages = Append(state.messages, Message("user", query))]

SearchFrame == UNCHANGED <<g_kind, g_pc, g_attempt, g_delay, g_last_error, g_attempts,
                           g_sleeps, g_result, g_src, g_srcfail, g_out, g_from, t_state, t_arg, t_pc,
                           t_node, t_trace, t_calls, t_err, t_prior, t_input, r_which, r_out,
                           e_state, e_pc, e_node, e_trace, e_calls, e_err, e_log, ovars, xvars, pvars,
        kvars, nvars>>

\* The state a caller hands to the next search call: the returned state, or, after a
\* run that raised, the object it passed before.
S_Threaded == IF s_pc \in {"idle", "returned"} THEN s_state ELSE s_arg

\* Bibliographos.search up to the start of the graph run (entry point search).
S_Search(query) ==
    /\ s_pc # "running"
    /\ Len(S_Threaded.bib_entries) <= MaxPriorBib
    /\ Len(S_Threaded.messages) <= MaxSearchHistory
    /\ s_prior' = S_Threaded
    /\ s_arg' = SearchPrepare(S_Threaded, query)
    /\ s_state' = SearchPrepare(S_Threaded, query)
    /\ s_pc' = "running"
    /\ s_node' = "search"
    /\ s_trace' = <<>>
    /\ s_calls' = 0
    /\ s_err' = "none"
    /\ s_replies' = <<>>
    /\ UNCHANGED c_last
    /\ SearchFrame

S_StepCatches(node, o, updated, next) ==
    /\ s_pc = "running" /\ s_node = node
    /\ Len(s_trace) < RecursionLimit
    /\ s_trace' = Append(s_trace, node)
    /\ s_calls' = s_calls + 1
    /\ c_last' = o
    /\ s_state' = updated
    /\ s_node' = next
    /\ s_pc' = IF next = "end" THEN "returned" ELSE "running"
    /\ s_err' = s_err
    /\ s_replies' = IF o.ok THEN Append(s_replies, o.reply) ELSE s_replies
    /\ UNCHANGED <<s_arg, s_prior>>
    /\ SearchFrame

\* One step of the run: phase body `node` with completion outcome o, the merge of its
\* update, and its router; "end" is the terminal marker END.
S_Step(node, o, updated, next) ==
    /\ s_pc = "running" /\ s_node = node
    /\ Len(s_trace) < RecursionLimit
    /\ s_trace' = Append(s_trace, node)
    /\ s_calls' = s_calls + 1
    /\ c_last' = o
    /\ IF o.ok
         THEN /\ s_state' = updated
              /\ s_node' = next
              /\ s_pc' = IF next = "end" THEN "returned" ELSE "running"
              /\ s_err' = s_err
              /\ s_replies' = Append(s_replies, o.reply)
         ELSE /\ s_state' = s_state
              /\ s_node' = s_node
              /\ s_pc' = "raised"
              /\ s_err' = o.class
              /\ s_replies' = s_replies
    /\ UNCHANGED <<s_arg, s_prior>>
    /\ SearchFrame

S_SearchNode(o) ==
    LET updated == IF o.ok THEN SearchUpdate(s_state, o.reply) ELSE s_state
    IN S_Step("search", o, updated, RouteFromSearch(updated))

S_ExtractNode(o) ==
    LET updated == IF o.ok THEN ExtractUpdate(s_state, o.reply) ELSE s_state
    IN S_Step("extract", o, updated, RouteFromExtract(updated))

S_ValidateNode(o) ==
    LET updated == IF o.ok THEN ValidateUpdate(s_state, o.reply) ELSE s_state
    IN S_Step("validate", o, updated, RouteFromValidate(updated))

NextSearch ==
    \/ \E query \in Queries : S_Search(query)
    \/ \E o \in Outcomes(SearchReplies) : S_SearchNode(o)
    \/ \E o \in Outcomes(SearchReplies) : S_ExtractNode(o)
    \/ \E o \in Outcomes(SearchReplies) : S_ValidateNode(o)

----------------------------------------------------------------------------
(* Document-editing agent: agents/graphos.py                               *)

EditPhases == {"analyze", "edit", "repair", "end"}

DefaultLatexState ==
    [messages |-> <<>>, file_path |-> <<>>, content |-> <<>>, phase |-> "analyze",
     edits |-> <<>>, errors |-> <<>>]

BeginTag == <<"\\", "b", "e", "g", "i", "n", "{">>
EndTag(name) == <<"\\", "e", "n", "d", "{">> \o name \o <<"}">>
CiteTag == <<"\\", "c", "i", "t", "e", "{">>
RefTag == <<"\\", "r", "e", "f", "{">>

\* \\begin\{([^}]+)\}(?![\s\S]*\\end\{\1\}) matches at i with its closing brace at j.
UnclosedEnvAt(c, i, j) ==
    /\ OccursAt(c, BeginTag, i)
    /\ j \in (i + 8)..Len(c)
    /\ c[j] = "}"
    /\ \A k \in (i + 7)..(j - 1) : c[k] # "}"
    /\ ~\E m \in (j + 1)..Len(c) : OccursAt(c, EndTag(SubSeq(c, i + 7, j - 1)), m)

\* (?<!\\)\$(?!.*(?<!\\)\$) matches at i.
UnclosedMathAt(c, i) ==
    /\ c[i] = "$"
    /\ i = 1 \/ c[i - 1] # "\\"
    /\ ~\E k \in (i + 1)..Len(c) :
          /\ c[k] = "$"
          /\ c[k - 1] # "\\"
          /\ \A m \in (i + 1)..(k - 1) : c[m] # "\n"

\* \{(?![^{}]*\}) matches at i.
UnclosedBraceAt(c, i) ==
    /\ c[i] = "{"
    /\ ~\E k \in (i + 1)..Len(c) :
          /\ c[k] = "}"
          /\ \A m \in (i + 1)..(k - 1) : c[m] \notin {"{", "}"}

\* \\cite\{\s*\} and \\ref\{\s*\}: tag, then white space only, then the closing brace.
EmptyCommandAt(c, tag, i) ==
    /\ OccursAt(c, tag, i)
    /\ \E k \in (i + Len(tag))..Len(c) :
          /\ c[k] = "}"
          /\ \A m \in (i + Len(tag))..(k - 1) : IsSpace(c[m])

\* re.search on the first pattern: the leftmost match and its group, formatted.
UnclosedEnvDiagnostics(c) ==
    LET hits == {i \in 1..Len(c) : \E j \in 1..Len(c) : UnclosedEnvAt(c, i, j)}
    IN IF hits = {} THEN <<>>
       ELSE LET i == CHOOSE h \in hits : \A g \in hits : h <= g
                j == CHOOSE k \in 1..Len(c) : UnclosedEnvAt(c, i, k)
            IN << <<"Unclosed environment: ">> \o SubSeq(c, i + 7, j - 1) >>

\* _check_syntax: one diagnostic per matching pattern, in the order of the patterns.
CheckSyntax(c) ==
    UnclosedEnvDiagnostics(c)
    \o (IF \E i \in 1..Len(c) : UnclosedMathAt(c, i)
          THEN << <<"Unclosed math mode">> >> ELSE <<>>)
    \o (IF \E i \in 1..Len(c) : UnclosedBraceAt(c, i)
          THEN << <<"Unclosed brace">> >> ELSE <<>>)
    \o (IF \E i \in 1..Len(c) : EmptyCommandAt(c, CiteTag, i)
          THEN << <<"Empty citation">> >> ELSE <<>>)
    \o (IF \E i \in 1..Len(c) : EmptyCommandAt(c, RefTag, i)
          THEN << <<"Empty reference">> >> ELSE <<>>)

\* The backquote character (a string literal cannot hold it).
Tick == "backquote"

Fence == <<Tick, Tick, Tick>>
FenceClose == <<"\n">> \o Fence
FenceLatex == Fence \o <<"l", "a", "t", "e", "x", "\n">>
FenceTex == Fence \o <<"t", "e", "x", "\n">>
FencePlain == Fence \o <<"\n">>

\* opener([\s\S]*?)\n followed by three backquotes matches at i, the closing fence at j.
FencedAt(r, opener, i, j) ==
    /\ OccursAt(r, opener, i)
    /\ j >= i + Len(opener)
    /\ OccursAt(r, FenceClose, j)

HasFenced(r, opener) == \E i, j \in 1..Len(r) : FencedAt(r, opener, i, j)

\* group(1) of the leftmost match, the lazy group ending at the first closing fence.
Fenced(r, opener) ==
    LET starts == {i \in 1..Len(r) : \E j \in 1..Len(r) : FencedAt(r, opener, i, j)}
        i == CHOOSE h \in starts : \A g \in starts : h <= g
        ends == {j \in 1..Len(r) : FencedAt(r, opener, i, j)}
        j == CHOOSE h \in ends : \A g \in ends : h <= g
    IN SubSeq(r, i + Len(opener), j - 1)

\* _extract_latex
ExtractLatex(r) ==
    IF HasFenced(r, FenceLatex) THEN Fenced(r, FenceLatex)
    ELSE IF HasFenced(r, FenceTex) THEN Fenced(r, FenceTex)
    ELSE IF HasFenced(r, FencePlain) THEN Fenced(r, FencePlain)
    ELSE r

\* x
DocPlain ==
    <<"x">>

\* \begin{a}x\end{a}
DocClosed ==
    <<"\\", "b", "e", "g", "i", "n", "{", "a", "}", "x", "\\", "e", "n", "d", "{", "a",
      "}">>

\* \begin{a}x
DocUnclosed ==
    <<"\\", "b", "e", "g", "i", "n", "{", "a", "}", "x">>

\* $x$
DocMath ==
    <<"$", "x", "$">>

\* {{x}}
DocNested ==
    <<"{", "{", "x", "}", "}">>

\* \begin{a}$\cite{ }
DocMulti ==
    <<"\\", "b", "e", "g", "i", "n", "{", "a", "}", "$", "\\", "c", "i", "t", "e", "{",
      " ", "}">>

\* ok NL FENCE latex NL x NL FENCE
ReplyLatex ==
    <<"o", "k", "\n", Tick, Tick, Tick, "l", "a", "t", "e", "x", "\n", "x", "\n", Tick, Tick,
      Tick>>

\* FENCE latex NL {x NL FENCE
ReplyLatexBad ==
    <<Tick, Tick, Tick, "l", "a", "t", "e", "x", "\n", "{", "x", "\n", Tick, Tick, Tick>>

\* FENCE tex NL \ref{} NL FENCE NL FENCE latex NL x
ReplyTex ==
    <<Tick, Tick, Tick, "t", "e", "x", "\n", "\\", "r", "e", "f", "{", "}", "\n", Tick, Tick,
      Tick, "\n", Tick, Tick, Tick, "l", "a", "t", "e", "x", "\n", "x">>

\* FENCE NL x NL FENCE
ReplyFence ==
    <<Tick, Tick, Tick, "\n", "x", "\n", Tick, Tick, Tick>>

\* The content argument of edit (<<>> stands for None and for "").
Contents == {<<>>, DocPlain, DocClosed, DocUnclosed, DocMath, DocNested, DocMulti}

\* The file_path argument of edit: not given, given but missing, or an existing file.
NoFile == [given |-> FALSE, exists |-> FALSE, path |-> <<>>, text |-> <<>>]
MissingFile == [given |-> TRUE, exists |-> FALSE, path |-> <<"m">>, text |-> <<>>]
File(text) == [given |-> TRUE, exists |-> TRUE, path |-> <<"f">>, text |-> text]

Files == {NoFile, MissingFile, File(DocUnclosed), File(<<>>)}

Instructions == {<<"f", "i", "x">>}

EditReplies == {DocPlain, DocUnclosed, ReplyLatex, ReplyLatexBad, ReplyTex, ReplyFence}

RouteFromAnalyzeSwapped(state) ==
    IF state.phase = "end" THEN "end"
    ELSE IF state.errors # <<>> THEN "edit" ELSE "repair"

RouteFromAnalyze(state) ==
    IF state.phase = "end" THEN "end"
    ELSE IF state.errors # <<>> THEN "repair" ELSE "edit"

RouteFromEditNoRepair(state) == "end"

RouteFromEdit(state) ==
    IF state.phase = "end" THEN "end"
    ELSE IF state.errors # <<>> THEN "repair" ELSE "end"

RouteFromRepairUntilClean(state) == IF state.errors # <<>> THEN "edit" ELSE "end"

RouteFromRepair(state) == "end"

AnalyzeUpdate(state, reply) ==
    LET errors == CheckSyntax(state.content)
    IN [state EXCEPT !.messages = Append(state.messages, Message("assistant", reply)),
                     !.errors = errors,
                     !.phase = IF errors # <<>> THEN "repair" ELSE "edit"]

EditUpdateAlwaysEnds(state, reply) ==
    LET edited_content == ExtractLatex(reply)
        new_errors == CheckSyntax(edited_content)
    IN [state EXCEPT !.messages = Append(state.messages, Message("assistant", reply)),
                     !.content = edited_content,
                     !.errors = new_errors,
                     !.phase = "end"]

EditUpdate(state, reply) ==
    LET edited_content == ExtractLatex(reply)
        new_errors == CheckSyntax(edited_content)
    IN [state EXCEPT !.messages = Append(state.messages, Message("assistant", reply)),
                     !.content = edited_content,
                     !.errors = new_errors,
                     !.phase = IF new_errors # <<>> THEN "repair" ELSE "end"]

RepairUpdate(state, reply) ==
    LET repaired_content == ExtractLatex(reply)
        new_errors == CheckSyntax(repaired_content)
    IN [state EXCEPT !.messages = Append(state.messages, Message("assistant", reply)),
                     !.content = repaired_content,
                     !.errors = new_errors,
                     !.phase = "end"]

\* edit() before the graph runs: a fresh default state, the file read if it exists,
\* a non-empty content stored, the instruction as the only message.
EditPrepare(instruction, content, file) ==
    LET read == file.given /\ file.exists
        effective == IF read THEN file.text ELSE content
    IN [DefaultLatexState EXCEPT
            !.file_path = IF read THEN file.path ELSE <<>>,
            !.content = IF effective # <<>> THEN effective ELSE <<>>,
            !.messages = <<Message("user", instruction)>>]

EditFrame == UNCHANGED <<g_kind, g_pc, g_attempt, g_delay, g_last_error, g_attempts,
                         g_sleeps, g_result, g_src, g_srcfail, g_out, g_from, t_state, t_arg, t_pc,
                         t_node, t_trace, t_calls, t_err, t_prior, t_input, r_which, r_out,
                         s_state, s_arg, s_pc, s_node, s_trace, s_calls, s_err, s_prior,
                         s_replies, ovars, xvars, pvars,
        kvars, nvars>>

\* Graphos.edit up to the start of the graph run (entry point analyze).
E_Edit(instruction, content, file) ==
    /\ e_pc # "running"
    /\ e_state' = EditPrepare(instruction, content, file)
    /\ e_pc' = "running"
    /\ e_node' = "analyze"
    /\ e_trace' = <<>>
    /\ e_calls' = 0
    /\ e_err' = "none"
    /\ e_log' = <<>>
    /\ UNCHANGED c_last
    /\ EditFrame

\* One step of the run: phase body `node` with completion outcome o, the merge of its
\* update, and its router; "end" is the terminal marker END. e_log records, per
\* executed phase, the reply it received and the content and diagnostics it left.
E_Step(node, o, updated, next) ==
    /\ e_pc = "running" /\ e_node = node
    /\ Len(e_trace) < RecursionLimit
    /\ e_trace' = Append(e_trace, node)
    /\ e_calls' = e_calls + 1
    /\ c_last' = o
    /\ IF o.ok
         THEN /\ e_state' = updated
              /\ e_node' = next
              /\ e_pc' = IF next = "end" THEN "returned" ELSE "running"
              /\ e_err' = e_err
              /\ e_log' = Append(e_log, [reply |-> o.reply, content |-> updated.content,
                                         errors |-> updated.errors])
         ELSE /\ e_state' = e_state
              /\ e_node' = e_node
              /\ e_pc' = "raised"
              /\ e_err' = o.class
              /\ e_log' = e_log
    /\ EditFrame

E_AnalyzeNode(o) ==
    LET updated == IF o.ok THEN AnalyzeUpdate(e_state, o.reply) ELSE e_state
    IN E_Step("analyze", o, updated, RouteFromAnalyze(updated))

E_EditNode(o) ==
    LET updated == IF o.ok THEN EditUpdate(e_state, o.reply) ELSE e_state
    IN E_Step("edit", o, updated, RouteFromEdit(updated))

E_RepairNode(o) ==
    LET updated == IF o.ok THEN RepairUpdate(e_state, o.reply) ELSE e_state
    IN E_Step("repair", o, updated, RouteFromRepair(updated))

NextEdit ==
    \/ \E instruction \in Instructions, content \in Contents, file \in Files :
            E_Edit(instruction, content, file)
    \/ \E o \in Outcomes(EditReplies) : E_AnalyzeNode(o)
    \/ \E o \in Outcomes(EditReplies) : E_EditNode(o)
    \/ \E o \in Outcomes(EditReplies) : E_RepairNode(o)

----------------------------------------------------------------------------
(* Orchestrator: agents/orchestrator.py                                    *)
(* A character outside ASCII is written as its code point, "U+3053".       *)

\* pending_search: None, or a text.
NoQuery == [some |-> FALSE, text |-> <<>>]
Query(text) == [some |-> TRUE, text |-> text]

\* What state.get("dialogue_state", {}) / state.get("search_state", {}) gives when the
\* caller's state lacks the key or holds an empty mapping.
EmptyMapping == [empty |-> TRUE]

DefaultOrchestratorState ==
    [messages |-> <<>>, active_agent |-> "theoretikos",
     dialogue_state |-> DefaultDialogueState, search_state |-> DefaultSearchState,
     pending_search |-> NoQuery, search_results |-> <<>>]

\* The longest search query _extract_search_query returns.
QueryCap == 200

\* s[:n]
Take(s, n) == IF Len(s) <= n THEN s ELSE SubSeq(s, 1, n)

\* A regular expression of HANDOFF_PATTERNS is a set of variants, one per way of taking
\* its optional group; a variant is a sequence of parts, each \s+ or a group of literal
\* alternatives (word? is the two alternatives word, words).
WS == [kind |-> "ws", alts |-> {}]
Alt(alts) == [kind |-> "alt", alts |-> alts]

JaVerbs == { <<"U+63A2", "U+3057", "U+3066">>, <<"U+8ABF", "U+3079", "U+3066">>,
             <<"U+691C", "U+7D22", "U+3057", "U+3066">> }

HANDOFF_PATTERNS ==
    << { << Alt({ <<"U+3053", "U+306E", "U+4E3B", "U+5F35", "U+306E", "U+6839", "U+62E0", "U+3092">> }),
            Alt(JaVerbs) >> },
       { << Alt({ <<"U+6587", "U+732E">>, <<"U+8AD6", "U+6587">>, <<"U+30BD", "U+30FC", "U+30B9">>,
                  <<"U+51FA", "U+5178">> }),
            Alt({ <<"U+3092">> }), Alt(JaVerbs) >> },
       { << Alt({ <<"e", "v", "i", "d", "e", "n", "c", "e">>,
                  <<"s", "o", "u", "r", "c", "e">>, <<"s", "o", "u", "r", "c", "e", "s">>,
                  <<"c", "i", "t", "a", "t", "i", "o", "n">>,
                  <<"c", "i", "t", "a", "t", "i", "o", "n", "s">>,
                  <<"r", "e", "f", "e", "r", "e", "n", "c", "e">>,
                  <<"r", "e", "f", "e", "r", "e", "n", "c", "e", "s">> }),
            WS,
            Alt({ <<"f", "o", "r">>, <<"a", "b", "o", "u", "t">>, <<"o", "n">> }) >> },
       { << Alt({ <<"f", "i", "n", "d">> }), WS,
            Alt({ <<"p", "a", "p", "e", "r">>, <<"p", "a", "p", "e", "r", "s">>,
                  <<"s", "o", "u", "r", "c", "e">>, <<"s", "o", "u", "r", "c", "e", "s">>,
                  <<"e", "v", "i", "d", "e", "n", "c", "e">>,
                  <<"l", "i", "t", "e", "r", "a", "t", "u", "r", "e">> }) >> },
       { << Alt({ <<"s", "e", "a", "r", "c", "h">> }), WS, Alt({ <<"f", "o", "r">> }), WS,
            Alt({ <<"l", "i", "t", "e", "r", "a", "t", "u", "r", "e">>,
                  <<"p", "a", "p", "e", "r">>, <<"p", "a", "p", "e", "r", "s">>,
                  <<"s", "o", "u", "r", "c", "e">>, <<"s", "o", "u", "r", "c", "e", "s">> }) >>,
         << Alt({ <<"s", "e", "a", "r", "c", "h">> }), WS,
            Alt({ <<"l", "i", "t", "e", "r", "a", "t", "u", "r", "e">>,
                  <<"p", "a", "p", "e", "r">>, <<"p", "a", "p", "e", "r", "s">>,
                  <<"s", "o", "u", "r", "c", "e">>, <<"s", "o", "u", "r", "c", "e", "s">> }) >> } >>

\* The positions (1-based, one past the last matched character) at which parts k.. of a
\* variant can end when matched against s from position i.
RECURSIVE Ends(_, _, _, _)
Ends(parts, k, s, i) ==
    IF k > Len(parts) THEN {i}
    ELSE IF parts[k].kind = "ws"
        THEN UNION { Ends(parts, k + 1, s, j) :
                       j \in {n \in (i + 1)..(Len(s) + 1) : \A m \in i..(n - 1) : IsSpace(s[m])} }
        ELSE UNION { Ends(parts, k + 1, s, i + Len(l)) :
                       l \in {a \in parts[k].alts : OccursAt(s, a, i)} }

\* The ends of the matches of a pattern that start at position i of a lower-cased text.
MatchEnds(pattern, low, i) == UNION { Ends(v, 1, low, i) : v \in pattern }

\* re.search(pattern, text, re.IGNORECASE) is not None. The pattern, written in lower
\* case, is matched against the lower-cased text; positions are those of the text.
ReSearch(pattern, text) ==
    LET low == FoldCase(text)
    IN \E i \in 1..Len(low) : MatchEnds(pattern, low, i) # {}

\* match.end() of re.search(pattern, text, re.IGNORECASE): the leftmost match; at one
\* start the alternatives of a pattern differ in their first letter, so the only choice
\* left is a final optional s, which is greedy.
MatchEnd(pattern, text) ==
    LET low == FoldCase(text)
        starts == {i \in 1..Len(low) : MatchEnds(pattern, low, i) # {}}
        i == CHOOSE h \in starts : \A g \in starts : h <= g
        ends == MatchEnds(pattern, low, i)
    IN (CHOOSE j \in ends : \A g \in ends : g <= j) - 1

\* The loop of _extract_search_query from pattern number p on: the first pattern that
\* matches and leaves text after its match decides; else the message, capped.
RECURSIVE ExtractFrom(_, _)
ExtractFrom(message, p) ==
    IF p > Len(HANDOFF_PATTERNS) THEN Take(message, QueryCap)
    ELSE IF ReSearch(HANDOFF_PATTERNS[p], message)
        THEN LET after_match ==
                     Strip(Slice(message, MatchEnd(HANDOFF_PATTERNS[p], message),
                                 Len(message)))
             IN IF after_match # <<>> THEN Take(after_match, QueryCap)
                ELSE ExtractFrom(message, p + 1)
        ELSE ExtractFrom(message, p + 1)

\* _extract_search_query
ExtractSearchQuery(message) == ExtractFrom(message, 1)

\* any(re.search(pattern, content.lower(), re.IGNORECASE) for pattern in HANDOFF_PATTERNS)
IsSearchRequest(content) ==
    \E p \in 1..Len(HANDOFF_PATTERNS) : ReSearch(HANDOFF_PATTERNS[p], Lower(content))

RouteUpdateAnyRole(state) ==
    IF state.messages = <<>> THEN [state EXCEPT !.active_agent = "theoretikos"]
    ELSE LET last_message == state.messages[Len(state.messages)]
         IN IF IsSearchRequest(last_message.content)
              THEN [state EXCEPT !.active_agent = "bibliographos",
                                 !.pending_search =
                                     Query(ExtractSearchQuery(last_message.content))]
              ELSE [state EXCEPT !.active_agent = "theoretikos"]

RouteUpdateKeepsControl(state) ==
    IF state.messages = <<>> THEN [state EXCEPT !.active_agent = "theoretikos"]
    ELSE LET last_message == state.messages[Len(state.messages)]
         IN IF last_message.role # "user"
              THEN [state EXCEPT !.active_agent = "theoretikos"]
            ELSE IF IsSearchRequest(last_message.content)
              THEN [state EXCEPT !.active_agent = "bibliographos",
                                 !.pending_search =
                                     Query(ExtractSearchQuery(last_message.content))]
            ELSE IF Contains(Lower(last_message.content), ThesisMarker)
              THEN [state EXCEPT !.active_agent = "theoretikos"]
            ELSE [state EXCEPT !.active_agent = "orchestrator"]

\* _route_node: the state with the update map it returns merged in.
RouteUpdate(state) ==
    IF state.messages = <<>> THEN [state EXCEPT !.active_agent = "theoretikos"]
    ELSE LET last_message == state.messages[Len(state.messages)]
         IN IF last_message.role # "user"
              THEN [state EXCEPT !.active_agent = "theoretikos"]
            ELSE IF IsSearchRequest(last_message.content)
              THEN [state EXCEPT !.active_agent = "bibliographos",
                                 !.pending_search =
                                     Query(ExtractSearchQuery(last_message.content))]
            ELSE [state EXCEPT !.active_agent = "theoretikos"]

\* _decide_route
DecideRoute(state) ==
    IF state.active_agent = "bibliographos" THEN "bibliographos"
    ELSE IF state.active_agent = "theoretikos" THEN "theoretikos"
    ELSE "end"

\* "\n".join(lines)
RECURSIVE JoinLines(_)
JoinLines(lines) ==
    IF lines = <<>> THEN <<>>
    ELSE IF Len(lines) = 1 THEN lines[1]
    ELSE lines[1] \o <<"\n">> \o JoinLines(Tail(lines))

SourcesHeader ==
    <<"\n", "\n", "[", "A", "v", "a", "i", "l", "a", "b", "l", "e", " ", "s", "o", "u",
        "r", "c", "e", "s", " ", "f", "r", "o", "m", " ", "l", "i", "t", "e", "r", "a",
        "t", "u", "r", "e", " ", "s", "e", "a", "r", "c", "h", "]", ":", "\n">>

\* The text _theoretikos_node hands to Theoretikos.chat: the user turn, followed by the
\* search results when there are any.
DelegatedInput(state) ==
    LET user_input == state.messages[Len(state.messages)].content
    IN IF state.search_results # <<>>
         THEN user_input \o SourcesHeader \o JoinLines(state.search_results)
         ELSE user_input

\* `dialogue_state or None` followed by chat's `if state is None`.
DialogueArg(dialogue_state) ==
    IF dialogue_state = EmptyMapping THEN DefaultDialogueState ELSE dialogue_state

\* `search_state or None` followed by search's `if state is None`.
SearchArg(search_state) ==
    IF search_state = EmptyMapping THEN DefaultSearchState ELSE search_state

HasPendingSearchUnlessNone(state) == state.pending_search.some

\* `not pending_search` is false.
HasPendingSearch(state) == state.pending_search.some /\ state.pending_search.text # <<>>

\* The update _theoretikos_node returns after chat, merged: search_results is not among
\* the keys it returns (the node's assignment state["search_results"] = [] is made to
\* the mapping the executor built for this node and is dropped with it).
TheoretikosUpdate(state, new_dialogue_state) ==
    IF new_dialogue_state.messages # <<>>
      THEN [state EXCEPT
              !.messages = Append(state.messages,
                  new_dialogue_state.messages[Len(new_dialogue_state.messages)]),
              !.dialogue_state = new_dialogue_state]
      ELSE [state EXCEPT !.dialogue_state = new_dialogue_state]

BibliographosUpdateKeepsPending(state, new_search_state) ==
    [state EXCEPT !.search_state = new_search_state,
                  !.search_results = new_search_state.bib_entries]

\* The update _bibliographos_node returns after search, merged.
BibliographosUpdate(state, new_search_state) ==
    [state EXCEPT !.search_state = new_search_state,
                  !.search_results = new_search_state.bib_entries,
                  !.pending_search = NoQuery]

DigitChars == <<"0", "1", "2", "3", "4", "5", "6", "7", "8", "9">>

\* str(n) for n >= 0
RECURSIVE Decimal(_)
Decimal(n) ==
    IF n < 10 THEN <<DigitChars[n + 1]>>
    ELSE Decimal(n \div 10) \o <<DigitChars[(n % 10) + 1]>>

SummaryHead == <<"[", "B", "i", "b", "l", "i", "o", "g", "r", "a", "p", "h", "o", "s", " ", "f",
        "o", "u", "n", "d", " ">>

SummaryTail ==
    <<" ", "r", "e", "l", "e", "v", "a", "n", "t", " ", "s", "o", "u", "r", "c", "e",
        "(", "s", ")", ".", " ", "T", "h", "e", " ", "s", "o", "u", "r", "c", "e", "s",
        " ", "h", "a", "v", "e", " ", "b", "e", "e", "n", " ", "i", "n", "t", "e", "g",
        "r", "a", "t", "e", "d", " ", "i", "n", "t", "o", " ", "t", "h", "e", " ", "d",
        "i", "s", "c", "u", "s", "s", "i", "o", "n", " ", "c", "o", "n", "t", "e", "x",
        "t", ".", "]">>

\* The synthetic message of _integrate_node.
Summary(n) == SummaryHead \o Decimal(n) \o SummaryTail

\* _integrate_node, merged.
IntegrateUpdate(state) ==
    IF state.search_results = <<>> THEN state
    ELSE [state EXCEPT !.messages = Append(state.messages,
              Message("assistant", Summary(Len(state.search_results))))]

\* Orchestrator.chat before the graph runs: the user turn is appended.
OrchestratorPrepare(state, user_input) ==
    [state EXCEPT !.messages = Append(state.messages, Message("user", user_input))]

\* Longest message history an Orchestrator.chat call is started on.
MaxOrchHistory == 3

\* A dialogue state whose phase is end, and one with a thesis and three objections.
EndedDialogue == [DefaultDialogueState EXCEPT !.phase = "end"]
ArguedDialogue ==
    [DefaultDialogueState EXCEPT !.thesis = <<"A">>,
                                 !.objections = [i \in 1..ObjectionsNeeded |-> PriorObjection]]

OrchestratorStates ==
    { DefaultOrchestratorState,
      [DefaultOrchestratorState EXCEPT !.dialogue_state = EmptyMapping,
                                       !.search_state = EmptyMapping],
      [DefaultOrchestratorState EXCEPT !.search_results = <<PriorBib>>],
      [DefaultOrchestratorState EXCEPT !.dialogue_state = EndedDialogue,
                                       !.search_results = <<PriorBib>>],
      [DefaultOrchestratorState EXCEPT !.dialogue_state = ArguedDialogue] }

InputHi == <<"h", "i">>
InputFindPapers == <<"F", "i", "n", "d", " ", "p", "a", "p", "e", "r", "s", " ", "x">>
InputTwoPatterns == <<"f", "i", "n", "d", " ", "p", "a", "p", "e", "r", "s", " ", "e", "v", "i", "d",
        "e", "n", "c", "e", " ", "f", "o", "r">>
InputThesis == <<"t", "h", "e", "s", "i", "s", ":", " ", "B">>

OrchestratorInputs == {InputHi, InputFindPapers, InputThesis}

OrchestratorReplies == {<<"r">>}

OrchestratorFrame == UNCHANGED <<g_kind, g_pc, g_attempt, g_delay, g_last_error, g_attempts,
                                 g_sleeps, g_result, g_src, g_srcfail, g_out, g_from, r_which, r_out,
                                 e_state, e_pc, e_node, e_trace, e_calls, e_err, e_log, c_last,
                                 xvars, pvars,
        kvars, nvars>>

\* The state a caller hands to the next chat call: the returned state, or, after a
\* call that raised, the object it passed before.
O_Threaded == IF o_pc \in {"idle", "returned"} THEN o_state ELSE o_arg

\* Orchestrator.chat up to the start of the graph run (entry point route). The caller
\* modelled here calls again only with a state a call returned.
O_Chat(user_input) ==
    /\ o_pc \in {"idle", "returned"}
    /\ Len(O_Threaded.messages) < MaxOrchHistory
    /\ o_prior' = O_Threaded
    /\ o_input' = user_input
    /\ o_arg' = OrchestratorPrepare(O_Threaded, user_input)
    /\ o_state' = OrchestratorPrepare(O_Threaded, user_input)
    /\ o_pc' = "running"
    /\ o_node' = "route"
    /\ o_trace' = <<>>
    /\ o_err' = "none"
    /\ o_sub' = "none"
    /\ UNCHANGED <<tvars, svars>>
    /\ OrchestratorFrame

\* The route phase and the conditional edge _decide_route.
O_Route ==
    /\ o_pc = "running" /\ o_node = "route"
    /\ o_trace' = Append(o_trace, "route")
    /\ LET updated == RouteUpdate(o_state)
       IN /\ o_state' = updated
          /\ o_node' = DecideRoute(updated)
          /\ o_pc' = IF DecideRoute(updated) = "end" THEN "returned" ELSE "running"
    /\ UNCHANGED <<o_arg, o_err, o_prior, o_input, o_sub, tvars, svars>>
    /\ OrchestratorFrame

\* _theoretikos_node up to its await: an empty update and END when there is no user turn,
\* else the call of Theoretikos.chat, which appends the turn to the dialogue state it was
\* handed (the mapping the caller's state holds) before it runs its graph.
O_TheoretikosCall ==
    /\ o_pc = "running" /\ o_node = "theoretikos" /\ o_sub = "none"
    /\ o_trace' = Append(o_trace, "theoretikos")
    /\ IF o_state.messages = <<>> \/ o_state.messages[Len(o_state.messages)].role # "user"
         THEN /\ o_pc' = "returned"
              /\ o_node' = "end"
              /\ UNCHANGED <<o_state, o_arg, o_sub, tvars>>
         ELSE LET passed == DialogueArg(o_state.dialogue_state)
                  prepared == ChatPrepare(passed, DelegatedInput(o_state))
                  shared == o_state.dialogue_state # EmptyMapping
              IN /\ o_sub' = "theoretikos"
                 /\ o_state' = IF shared THEN [o_state EXCEPT !.dialogue_state = prepared]
                               ELSE o_state
                 /\ o_arg' = IF shared THEN [o_arg EXCEPT !.dialogue_state = prepared]
                             ELSE o_arg
                 /\ t_prior' = passed
                 /\ t_input' = DelegatedInput(o_state)
                 /\ t_arg' = prepared
                 /\ t_state' = prepared
                 /\ t_pc' = "running"
                 /\ t_node' = "clarify"
                 /\ t_trace' = <<>>
                 /\ t_calls' = 0
                 /\ t_err' = "none"
                 /\ UNCHANGED <<o_pc, o_node>>
    /\ UNCHANGED <<o_err, o_prior, o_input, svars>>
    /\ OrchestratorFrame

\* _theoretikos_node after its await: chat returned (the update is merged and the edge
\* to END taken) or raised (nothing catches the error; the executor's own error when
\* the dialogue run hit its step limit).
O_TheoretikosDone ==
    /\ o_pc = "running" /\ o_sub = "theoretikos"
    /\ t_pc \in {"returned", "raised", "limit"}
    /\ o_sub' = "none"
    /\ IF t_pc = "returned"
         THEN /\ o_state' = TheoretikosUpdate(o_state, t_state)
              /\ o_pc' = "returned"
              /\ o_node' = "end"
              /\ o_err' = o_err
         ELSE /\ o_state' = o_state
              /\ o_pc' = "raised"
              /\ o_node' = o_node
              /\ o_err' = IF t_pc = "raised" THEN t_err ELSE "GraphRecursionError"
    /\ UNCHANGED <<o_arg, o_trace, o_prior, o_input, tvars, svars>>
    /\ OrchestratorFrame

O_BibliographosCallWithoutAwait ==
    /\ o_pc = "running" /\ o_node = "bibliographos" /\ o_sub = "none"
    /\ o_trace' = Append(o_trace, "bibliographos")
    /\ IF ~HasPendingSearch(o_state)
         THEN UNCHANGED <<o_state, o_arg, svars>>
         ELSE LET passed == SearchArg(o_state.search_state)
                  prepared == SearchPrepare(passed, o_state.pending_search.text)
                  shared == o_state.search_state # EmptyMapping
              IN /\ o_state' = IF shared THEN [o_state EXCEPT !.search_state = prepared]
                               ELSE o_state
                 /\ o_arg' = IF shared THEN [o_arg EXCEPT !.search_state = prepared]
                             ELSE o_arg
                 /\ s_prior' = passed
                 /\ s_arg' = prepared
                 /\ s_state' = prepared
                 /\ s_pc' = "running"
                 /\ s_node' = "search"
                 /\ s_trace' = <<>>
                 /\ s_calls' = 0
                 /\ s_err' = "none"
                 /\ s_replies' = <<>>
    /\ o_node' = "integrate"
    /\ UNCHANGED <<o_pc, o_err, o_prior, o_input, o_sub, tvars>>
    /\ OrchestratorFrame

\* _bibliographos_node up to its await: an empty update when no search is pending, else
\* the call of Bibliographos.search, which records the query and the turn in the search
\* state it was handed before it runs its graph.
O_BibliographosCall ==
    /\ o_pc = "running" /\ o_node = "bibliographos" /\ o_sub = "none"
    /\ o_trace' = Append(o_trace, "bibliographos")
    /\ IF ~HasPendingSearch(o_state)
         THEN /\ o_node' = "integrate"
              /\ UNCHANGED <<o_state, o_arg, o_sub, svars>>
         ELSE LET passed == SearchArg(o_state.search_state)
                  prepared == SearchPrepare(passed, o_state.pending_search.text)
                  shared == o_state.search_state # EmptyMapping
              IN /\ o_sub' = "bibliographos"
                 /\ o_state' = IF shared THEN [o_state EXCEPT !.search_state = prepared]
                               ELSE o_state
                 /\ o_arg' = IF shared THEN [o_arg EXCEPT !.search_state = prepared]
                             ELSE o_arg
                 /\ s_prior' = passed
                 /\ s_arg' = prepared
                 /\ s_state' = prepared
                 /\ s_pc' = "running"
                 /\ s_node' = "search"
                 /\ s_trace' = <<>>
                 /\ s_calls' = 0
                 /\ s_err' = "none"
                 /\ s_replies' = <<>>
                 /\ o_node' = o_node
    /\ UNCHANGED <<o_pc, o_err, o_prior, o_input, tvars>>
    /\ OrchestratorFrame

\* _bibliographos_node after its await: search returned (the update is merged and the
\* edge to integrate taken) or raised.
O_BibliographosDone ==
    /\ o_pc = "running" /\ o_sub = "bibliographos"
    /\ s_pc \in {"returned", "raised"}
    /\ o_sub' = "none"
    /\ IF s_pc = "returned"
         THEN /\ o_state' = BibliographosUpdate(o_state, s_state)
              /\ o_pc' = o_pc
              /\ o_node' = "integrate"
              /\ o_err' = o_err
         ELSE /\ o_state' = o_state
              /\ o_pc' = "raised"
              /\ o_node' = o_node
              /\ o_err' = s_err
    /\ UNCHANGED <<o_arg, o_trace, o_prior, o_input, tvars, svars>>
    /\ OrchestratorFrame

\* The integrate phase and its edge to END.
O_Integrate ==
    /\ o_pc = "running" /\ o_node = "integrate"
    /\ o_trace' = Append(o_trace, "integrate")
    /\ o_state' = IntegrateUpdate(o_state)
    /\ o_pc' = "returned"
    /\ o_node' = "end"
    /\ UNCHANGED <<o_arg, o_err, o_prior, o_input, o_sub, tvars, svars>>
    /\ OrchestratorFrame

\* An Orchestrator.chat call with the sub-agent runs its phases drive.
NextOrchestrator ==
    \/ \E user_input \in OrchestratorInputs : O_Chat(user_input)
    \/ O_Route
    \/ O_TheoretikosCall
    \/ O_TheoretikosDone
    \/ O_BibliographosCall
    \/ O_BibliographosDone
    \/ O_Integrate
    \/ \E o \in Outcomes(OrchestratorReplies) : T_Clarify(o)
    \/ \E o \in Outcomes(OrchestratorReplies) : T_Challenge(o)
    \/ \E o \in Outcomes(OrchestratorReplies) : T_Synthesize(o)
    \/ T_Limit
    \/ \E o \in Outcomes(OrchestratorReplies) : S_SearchNode(o)
    \/ \E o \in Outcomes(OrchestratorReplies) : S_ExtractNode(o)
    \/ \E o \in Outcomes(OrchestratorReplies) : S_ValidateNode(o)

\* [c] * n
Repeat(c, n) == [i \in 1..n |-> c]

InputFindOnly == <<"f", "i", "n", "d", " ", "p", "a", "p", "e", "r", "s">>
InputTrim == <<"S", "o", "u", "r", "c", "e", "s", " ", " ", "f", "o", "r", " ", "\n", " ", "y", " ">>
InputSpecExample ==
    <<"C", "a", "n", " ", "y", "o", "u", " ", "f", "i", "n", "d", " ", "s", "o", "u",
        "r", "c", "e", "s", " ", "f", "o", "r", " ", "c", "l", "i", "m", "a", "t", "e",
        " ", "p", "o", "l", "i", "c", "y", "?">>
InputJaSources == <<"U+6587", "U+732E", "U+3092", "U+63A2", "U+3057", "U+3066", " ", "z">>
InputJaGrounds == <<"U+3053", "U+306E", "U+4E3B", "U+5F35", "U+306E", "U+6839", "U+62E0", "U+3092",
        "U+8ABF", "U+3079", "U+3066">>
InputSearchFor == <<"S", "e", "a", "r", "c", "h", " ", "f", "o", "r", " ", "l", "i", "t", "e", "r",
        "a", "t", "u", "r", "e", " ", "q">>
InputSearchPapers == <<"s", "e", "a", "r", "c", "h", " ", "p", "a", "p", "e", "r", "s">>
InputSearchFork == <<"s", "e", "a", "r", "c", "h", " ", "f", "o", "r", "k", "s">>
InputLongSuffix == <<"f", "i", "n", "d", " ", "p", "a", "p", "e", "r", "s", " ">> \o Repeat("x", QueryCap + 1)
InputLongWhole == Repeat("x", QueryCap) \o <<" ", "f", "i", "n", "d", " ", "p", "a", "p", "e", "r", "s">>

RouteInputs ==
    { InputHi, InputFindPapers, InputTwoPatterns, InputThesis, InputFindOnly, InputTrim,
      InputSpecExample, InputJaSources, InputJaGrounds, InputSearchFor, InputSearchPapers,
      InputSearchFork, InputLongSuffix, InputLongWhole }

\* States the route phase is applied to: any last message, any pending search.
RouteStates ==
    [messages : {<<>>, <<Message("assistant", InputFindPapers)>>,
                 <<Message("user", InputFindPapers), Message("assistant", InputHi)>>}
                \cup {<<Message("user", c)>> : c \in RouteInputs},
     active_agent : {"theoretikos", "bibliographos", "orchestrator"},
     dialogue_state : {DefaultDialogueState},
     search_state : {DefaultSearchState},
     pending_search : {NoQuery, Query(<<"q">>)},
     search_results : {<<>>}]

\* The route phase of a graph run on any state.
NextRoute == O_Route

----------------------------------------------------------------------------
(* Streaming entry points: Theoretikos.stream_chat, Bibliographos.stream_search, *)
(* Graphos.stream_edit, Orchestrator.stream_chat. Each is an async generator:    *)
(* calling it runs none of its body; the body runs when the consumer asks for    *)
(* the next chunk, up to the next yield.                                         *)

\* The caller passed None (or, for stream_edit, there is no state parameter).
NoState == [absent |-> TRUE]

\* "[Searching for: {search_query}]\n\n"
Announce(search_query) == <<"[", "S", "e", "a", "r", "c", "h", "i", "n", "g", " ", "f", "o", "r", ":", " ">> \o search_query \o <<"]", "\n", "\n">>

\* What the statements of stream_chat before its `async for` do to the state object
\* it was given: messages is rebound to a new list, the object is only read.
StreamChatPrepare(state, user_input) == state

\* What the statements of stream_search before its `async for` do to the state
\* object it was given: `state["query"] = query`; messages is rebound to a new list.
StreamSearchPrepare(state, query) == [state EXCEPT !.query = query]

StreamIsSearchRequestCaseSensitive(user_input) ==
    \E p \in 1..Len(HANDOFF_PATTERNS) :
        \E i \in 1..Len(user_input) : MatchEnds(HANDOFF_PATTERNS[p], user_input, i) # {}

\* is_search_request of Orchestrator.stream_chat:
\* any(re.search(pattern, user_input.lower(), re.IGNORECASE) for pattern in HANDOFF_PATTERNS)
StreamIsSearchRequest(user_input) ==
    \E p \in 1..Len(HANDOFF_PATTERNS) : ReSearch(HANDOFF_PATTERNS[p], Lower(user_input))

\* Texts the underlying client stream delivers, and the ways it can end.
StreamContents == {<<>>, << <<"a">> >>, << <<"a">>, <<"b">> >>}
StreamEndings == {"none", "RateLimitError"}

StreamDialogueStates == {NoState, DefaultDialogueState, ArguedDialogue}

QueriedSearchState ==
    [DefaultSearchState EXCEPT !.query = <<"q">>, !.phase = "end",
                               !.messages = <<Message("user", <<"q">>),
                                              Message("assistant", <<"r">>)>>,
                               !.bib_entries = <<PriorBib>>]

StreamSearchStates == {NoState, DefaultSearchState, QueriedSearchState}

StreamOrchestratorStates ==
    {NoState} \cup OrchestratorStates
    \cup { [DefaultOrchestratorState EXCEPT !.search_state = QueriedSearchState,
                                            !.search_results = <<PriorBib>>] }

\* `if state is None: state = _default_state()` of Orchestrator.stream_chat.
StreamOrchestratorState(state) ==
    IF state = NoState THEN DefaultOrchestratorState ELSE state

StreamFrame == UNCHANGED <<gvars, tvars, rvars, svars, evars, ovars, c_last, pvars, kvars, nvars>>

\* Calling one of the four generator functions: a generator object, no body run yet.
X_Open(entry, input, state) ==
    /\ x_pc \in {"idle", "done", "raised", "abandoned"}
    /\ x_entry' = entry
    /\ x_input' = input
    /\ x_prior' = state
    /\ x_arg' = state
    /\ x_pc' = "created"
    /\ x_branch' = "none"
    /\ x_query' = NoQuery
    /\ x_src' = <<>>
    /\ x_end' = "none"
    /\ x_out' = <<>>
    /\ StreamFrame

X_StreamChat(user_input, state) == X_Open("theoretikos", user_input, state)

X_StreamSearch(query, state) == X_Open("bibliographos", query, state)

\* stream_edit has no state parameter.
X_StreamEdit(instruction) == X_Open("graphos", instruction, NoState)

X_OrchestratorStreamChat(user_input, state) == X_Open("orchestrator", user_input, state)

\* The first request for a chunk: the body up to its first suspension. The three
\* sub-agent generators reach `async for chunk in self.client.stream(...)`;
\* Orchestrator.stream_chat on the search branch yields its announcement first, on
\* the dialogue branch it enters Theoretikos.stream_chat, which reads its state only.
X_Start(contents, ending) ==
    /\ x_pc = "created"
    /\ x_src' = contents
    /\ x_end' = ending
    /\ CASE x_entry = "theoretikos" ->
              /\ x_arg' = IF x_arg = NoState THEN x_arg
                          ELSE StreamChatPrepare(x_arg, x_input)
              /\ x_pc' = "streaming"
              /\ UNCHANGED <<x_branch, x_query, x_out>>
         [] x_entry = "bibliographos" ->
              /\ x_arg' = IF x_arg = NoState THEN x_arg
                          ELSE StreamSearchPrepare(x_arg, x_input)
              /\ x_pc' = "streaming"
              /\ UNCHANGED <<x_branch, x_query, x_out>>
         [] x_entry = "graphos" ->
              /\ x_pc' = "streaming"
              /\ UNCHANGED <<x_arg, x_branch, x_query, x_out>>
         [] x_entry = "orchestrator" ->
              IF StreamIsSearchRequest(x_input)
                THEN /\ x_branch' = "search"
                     /\ x_out' = <<Announce(ExtractSearchQuery(x_input))>>
                     /\ x_pc' = "announced"
                     /\ UNCHANGED <<x_arg, x_query>>
                ELSE /\ x_branch' = "dialogue"
                     /\ x_arg' =
                          IF x_arg = NoState \/ x_arg.dialogue_state = EmptyMapping
                            THEN x_arg
                            ELSE [x_arg EXCEPT !.dialogue_state =
                                     StreamChatPrepare(x_arg.dialogue_state, x_input)]
                     /\ x_pc' = "streaming"
                     /\ UNCHANGED <<x_query, x_out>>
    /\ UNCHANGED <<x_entry, x_input, x_prior>>
    /\ StreamFrame

\* The request after the announcement: Orchestrator.stream_chat enters
\* Bibliographos.stream_search(search_query, search_state or None), whose body runs
\* up to its `async for` on the caller's embedded search state (the same object).
X_Nested ==
    /\ x_pc = "announced"
    /\ x_query' = Query(ExtractSearchQuery(x_input))
    /\ x_arg' = IF x_arg = NoState \/ x_arg.search_state = EmptyMapping
                  THEN x_arg
                  ELSE [x_arg EXCEPT !.search_state =
                           StreamSearchPrepare(x_arg.search_state,
                                               ExtractSearchQuery(x_input))]
    /\ x_pc' = "streaming"
    /\ UNCHANGED <<x_entry, x_input, x_prior, x_branch, x_src, x_end, x_out>>
    /\ StreamFrame

\* `yield chunk.content` for the next chunk of the client's stream.
X_Chunk ==
    /\ x_pc = "streaming" /\ x_src # <<>>
    /\ x_out' = Append(x_out, Head(x_src))
    /\ x_src' = Tail(x_src)
    /\ UNCHANGED <<x_entry, x_input, x_prior, x_arg, x_pc, x_branch, x_query, x_end>>
    /\ StreamFrame

\* The client's stream is exhausted: the generator returns.
X_End ==
    /\ x_pc = "streaming" /\ x_src = <<>> /\ x_end = "none"
    /\ x_pc' = "done"
    /\ UNCHANGED <<x_entry, x_input, x_prior, x_arg, x_branch, x_query, x_src, x_end, x_out>>
    /\ StreamFrame

\* The client's stream raises: no generator catches it.
X_Raise ==
    /\ x_pc = "streaming" /\ x_src = <<>> /\ x_end # "none"
    /\ x_pc' = "raised"
    /\ UNCHANGED <<x_entry, x_input, x_prior, x_arg, x_branch, x_query, x_src, x_end, x_out>>
    /\ StreamFrame

\* The consumer stops asking (it drops or closes the generator) at any point.
X_Abandon ==
    /\ x_pc \in {"created", "announced", "streaming"}
    /\ x_pc' = "abandoned"
    /\ UNCHANGED <<x_entry, x_input, x_prior, x_arg, x_branch, x_query, x_src, x_end, x_out>>
    /\ StreamFrame

NextStream ==
    \/ \E user_input \in UserInputs, state \in StreamDialogueStates :
            X_StreamChat(user_input, state)
    \/ \E query \in Queries, state \in StreamSearchStates : X_StreamSearch(query, state)
    \/ \E instruction \in Instructions : X_StreamEdit(instruction)
    \/ \E user_input \in RouteInputs, state \in StreamOrchestratorStates :
            X_OrchestratorStreamChat(user_input, state)
    \/ \E contents \in StreamContents, ending \in StreamEndings : X_Start(contents, ending)
    \/ X_Nested
    \/ X_Chunk
    \/ X_End
    \/ X_Raise
    \/ X_Abandon

\* States the search phase of the orchestrator is applied to: pending_search absent,
\* empty or set; any embedded search state.
BibliographosNodeStates ==
    [messages : {<<>>, <<Message("user", InputFindPapers)>>},
     active_agent : {"theoretikos", "bibliographos"},
     dialogue_state : {DefaultDialogueState},
     search_state : {EmptyMapping, DefaultSearchState, QueriedSearchState},
     pending_search : {NoQuery, Query(<<>>), Query(<<"q">>)},
     search_results : {<<>>, <<PriorBib>>}]

\* The search phase of a graph run on any state, and the rest of the run.
NextBibliographosNode ==
    \/ O_BibliographosCall
    \/ \E o \in Outcomes(OrchestratorReplies) : S_SearchNode(o)
    \/ \E o \in Outcomes(OrchestratorReplies) : S_ExtractNode(o)
    \/ \E o \in Outcomes(OrchestratorReplies) : S_ValidateNode(o)
    \/ O_BibliographosDone
    \/ O_Integrate

----------------------------------------------------------------------------
(* Bibliographos.format_bibtex: a Citation rendered as a BibTeX stanza.    *)

\* citation.get("doi") and the like: None (the key is missing or holds None), or a text.
Absent == [some |-> FALSE, text |-> <<>>]
Present(text) == [some |-> TRUE, text |-> text]

\* separator.join(items)
RECURSIVE Join(_, _)
Join(separator, items) ==
    IF items = <<>> THEN <<>>
    ELSE IF Len(items) = 1 THEN items[1]
    ELSE items[1] \o separator \o Join(separator, Tail(items))

\* The longest abstract format_bibtex renders in full.
AbstractCap == 500

AbstractValueWhole(abstract) == abstract

\* abstract[:500]
AbstractValue(abstract) == Take(abstract, AbstractCap)

\* f"doi = {{{value}}}"
OptionalPart(name, value) == name \o <<" ", "=", " ", "{">> \o value \o <<"}">>

\* optional_parts: one part for each of doi, url, abstract that is truthy, in that order.
OptionalParts(citation) ==
    (IF citation.doi.some /\ citation.doi.text # <<>>
       THEN <<OptionalPart(<<"d", "o", "i">>, citation.doi.text)>> ELSE <<>>)
    \o (IF citation.url.some /\ citation.url.text # <<>>
          THEN <<OptionalPart(<<"u", "r", "l">>, citation.url.text)>> ELSE <<>>)
    \o (IF citation.abstract.some /\ citation.abstract.text # <<>>
          THEN <<OptionalPart(<<"a", "b", "s", "t", "r", "a", "c", "t">>, AbstractValue(citation.abstract.text))>>
          ELSE <<>>)

\* BIBTEX_TEMPLATE.format(...)
BibtexTemplate(entry_type, key, authors, title, year, optional_fields) ==
    <<"@">> \o entry_type \o <<"{">> \o key \o <<",", "\n", " ", " ", "a", "u", "t", "h", "o", "r", " ", "=", " ", "{">> \o authors
    \o <<"}", ",", "\n", " ", " ", "t", "i", "t", "l", "e", " ", "=", " ", "{">> \o title \o <<"}", ",", "\n", " ", " ", "y", "e", "a", "r", " ", "=", " ", "{">> \o year \o <<"}", ",", "\n", " ", " ">>
    \o optional_fields \o <<"\n", "}">>

\* format_bibtex
FormatBibtex(citation) ==
    BibtexTemplate(citation.type, citation.key, Join(<<" ", "a", "n", "d", " ">>, citation.authors),
                   citation.title, citation.year,
                   Join(<<",", "\n", " ", " ">>, OptionalParts(citation)))

\* Optional fields of the citations rendered: missing, empty, or a text.
OptionalTexts == {Absent, Present(<<>>), Present(<<"d">>)}

\* Abstracts: missing, empty, short, exactly at the cap, and one character beyond it.
Abstracts ==
    { Absent, Present(<<>>), Present(<<"a", "b">>), Present(Repeat("x", AbstractCap)),
      Present(Repeat("x", AbstractCap - 1) \o <<"y", "z">>) }

Citations ==
    [type : {<<"a", "r", "t", "i", "c", "l", "e">>},
     key : {<<"k", "1">>},
     authors : { <<>>, << <<"A">> >>, << <<"A">>, <<"B">> >>, << <<"B">>, <<"A">>, <<"C">> >> },
     title : {<<"T">>},
     year : {<<"2", "0", "2", "0">>},
     source : {<<>>},
     doi : OptionalTexts,
     url : OptionalTexts,
     abstract : Abstracts]

\* format_bibtex(citation)
P_FormatBibtex(citation) ==
    /\ p_fn' = "format_bibtex"
    /\ p_in' = citation
    /\ p_out' = FormatBibtex(citation)
    /\ ProbeFrame

NextFormat == \E citation \in Citations : P_FormatBibtex(citation)

----------------------------------------------------------------------------
(* The four entry points side by side: a caller drives one agent, from its *)
(* default state, and the others stay idle.                                *)

AgentChat(user_input) ==
    /\ s_pc = "idle" /\ e_pc = "idle" /\ o_pc = "idle"
    /\ T_Chat(user_input)

AgentSearch(query) ==
    /\ t_pc = "idle" /\ e_pc = "idle" /\ o_pc = "idle"
    /\ S_Search(query)

AgentEdit(instruction, content, file) ==
    /\ t_pc = "idle" /\ s_pc = "idle" /\ o_pc = "idle"
    /\ E_Edit(instruction, content, file)

AgentOrchestratorChat(user_input) ==
    /\ e_pc = "idle"
    /\ o_pc # "idle" \/ (t_pc = "idle" /\ s_pc = "idle")
    /\ O_Chat(user_input)

NextAgents ==
    \/ \E user_input \in UserInputs : AgentChat(user_input)
    \/ \E query \in Queries : AgentSearch(query)
    \/ \E instruction \in Instructions, content \in Contents, file \in Files :
            AgentEdit(instruction, content, file)
    \/ \E user_input \in OrchestratorInputs : AgentOrchestratorChat(user_input)
    \/ O_Route
    \/ O_TheoretikosCall
    \/ O_TheoretikosDone
    \/ O_BibliographosCall
    \/ O_BibliographosDone
    \/ O_Integrate
    \/ \E o \in Outcomes(DialogueReplies) : T_Clarify(o)
    \/ \E o \in Outcomes(DialogueReplies) : T_Challenge(o)
    \/ \E o \in Outcomes(DialogueReplies) : T_Synthesize(o)
    \/ T_Limit
    \/ \E o \in Outcomes(SearchReplies) : S_SearchNode(o)
    \/ \E o \in Outcomes(SearchReplies) : S_ExtractNode(o)
    \/ \E o \in Outcomes(SearchReplies) : S_ValidateNode(o)
    \/ \E o \in Outcomes(EditReplies) : E_AnalyzeNode(o)
    \/ \E o \in Outcomes(EditReplies) : E_EditNode(o)
    \/ \E o \in Outcomes(EditReplies) : E_RepairNode(o)

----------------------------------------------------------------------------
(* Interactive sessions: cli/sessions/chat.py, search.py, research.py.     *)
(* One turn is _process_input: the user turn is written to the session     *)
(* state, the agent's stream is consumed, the reply is written.            *)

SessionKinds == {"chat", "search", "research"}

\* self.state as the session's constructor builds it.
SessionDefault(kind) ==
    CASE kind = "chat" -> DefaultDialogueState
      [] kind = "search" -> DefaultSearchState
      [] kind = "research" -> DefaultOrchestratorState

\* Message(role="system", content=SYSTEM_PROMPT.format(phase=phase)): the agent's
\* prompt text with the phase filled in.
SystemMessage(agent, phase) == Message("system", <<agent, "SYSTEM_PROMPT", phase>>)

\* all_messages of Theoretikos.stream_chat.
StreamChatMessages(state, user_input) ==
    <<SystemMessage("theoretikos", state.phase)>>
        \o Append(state.messages, Message("user", user_input))

\* search_prompt of Bibliographos.stream_search.
SearchPrompt(query) ==
    <<"S", "e", "a", "r", "c", "h", " ", "q", "u", "e", "r", "y", ":", " ">> \o query
        \o <<"\n", "\n", "F", "i", "n", "d", " ", "a", "n", "d", " ", "c", "i", "t", "e", " ",
        "r", "e", "l", "e", "v", "a", "n", "t", " ", "a", "c", "a", "d", "e", "m", "i",
        "c", " ", "s", "o", "u", "r", "c", "e", "s", " ", "f", "o", "r", " ", "t", "h",
        "i", "s", " ", "r", "e", "s", "e", "a", "r", "c", "h", " ", "t", "o", "p", "i",
        "c", ".">>

\* all_messages of Bibliographos.stream_search.
StreamSearchMessages(state, query) ==
    <<SystemMessage("bibliographos", state.phase)>>
        \o Append(state.messages, Message("user", query))
        \o <<Message("user", SearchPrompt(query))>>

\* "\n\n[Available sources]:\n"
StreamSourcesHeader == <<"\n", "\n", "[", "A", "v", "a", "i", "l", "a", "b", "l", "e", " ", "s", "o", "u",
        "r", "c", "e", "s", "]", ":", "\n">>

\* The message list Orchestrator.stream_chat has its sub-agent send: on the search
\* branch that of stream_search for the extracted query and the embedded search
\* state, else that of stream_chat for the input (with the search results, if any)
\* and the embedded dialogue state.
OrchestratorStreamMessages(state, user_input) ==
    IF StreamIsSearchRequest(user_input)
      THEN StreamSearchMessages(SearchArg(state.search_state),
                                ExtractSearchQuery(user_input))
      ELSE StreamChatMessages(
               DialogueArg(state.dialogue_state),
               IF state.search_results # <<>>
                 THEN user_input \o StreamSourcesHeader \o JoinLines(state.search_results)
                 ELSE user_input)

\* The statements of _process_input before the stream is consumed.
SessionPrepare(kind, state, user_input) ==
    CASE kind = "chat" -> ChatPrepare(state, user_input)
      [] kind = "search" -> SearchPrepare(state, user_input)
      [] kind = "research" -> OrchestratorPrepare(state, user_input)

\* The message list handed to LLMClient.stream in a turn, computed by the agent's
\* generator from the session state as _process_input has just written it.
SessionSent(kind, prepared, user_input) ==
    CASE kind = "chat" -> StreamChatMessages(prepared, user_input)
      [] kind = "search" -> StreamSearchMessages(prepared, user_input)
      [] kind = "research" -> OrchestratorStreamMessages(prepared, user_input)

\* What the generator writes to the session state before its `async for`.
SessionStreamWrites(kind, prepared, user_input) ==
    CASE kind = "chat" -> StreamChatPrepare(prepared, user_input)
      [] kind = "search" -> StreamSearchPrepare(prepared, user_input)
      [] kind = "research" ->
            IF StreamIsSearchRequest(user_input) /\ prepared.search_state # EmptyMapping
              THEN [prepared EXCEPT !.search_state =
                       StreamSearchPrepare(prepared.search_state,
                                           ExtractSearchQuery(user_input))]
              ELSE prepared

\* The announcement Orchestrator.stream_chat yields before the search stream.
SessionAnnouncement(kind, user_input) ==
    IF kind = "research" /\ StreamIsSearchRequest(user_input)
      THEN Announce(ExtractSearchQuery(user_input))
      ELSE <<>>

\* The statements of _process_input after the stream is exhausted.
SessionCommit(kind, state, response_text) ==
    LET replied == [state EXCEPT !.messages =
                        Append(state.messages, Message("assistant", response_text))]
    IN IF kind = "search"
         THEN [replied EXCEPT !.bib_entries = Append(state.bib_entries, response_text)]
         ELSE replied

\* Turns are started only while the session's history is shorter than this.
MaxSessionHistory == 3

SessionInputs == {InputHi, InputFindPapers, InputThesis}

SessionFrame == UNCHANGED <<gvars, tvars, rvars, svars, evars, ovars, c_last, xvars, pvars,
                            kvars, n_kind>>

\* _process_input up to the first chunk: the user turn is written, the generator is
\* created and its body run to the `async for` over the client's stream, which will
\* deliver `contents` and then end normally or raise.
N_ProcessInput(user_input, contents, ending) ==
    /\ n_pc \in {"idle", "done", "raised"}
    /\ Len(n_state.messages) < MaxSessionHistory
    /\ LET prepared == SessionPrepare(n_kind, n_state, user_input)
       IN /\ n_prior' = n_state
          /\ n_input' = user_input
          /\ n_sent' = SessionSent(n_kind, prepared, user_input)
          /\ n_state' = SessionStreamWrites(n_kind, prepared, user_input)
          /\ n_text' = SessionAnnouncement(n_kind, user_input)
    /\ n_src' = contents
    /\ n_end' = ending
    /\ n_pc' = "streaming"
    /\ SessionFrame

\* response_text += chunk
N_Chunk ==
    /\ n_pc = "streaming" /\ n_src # <<>>
    /\ n_text' = n_text \o Head(n_src)
    /\ n_src' = Tail(n_src)
    /\ UNCHANGED <<n_pc, n_state, n_prior, n_input, n_sent, n_end>>
    /\ SessionFrame

\* The stream is exhausted: the reply is written to the session state.
N_Finish ==
    /\ n_pc = "streaming" /\ n_src = <<>> /\ n_end = "none"
    /\ n_state' = SessionCommit(n_kind, n_state, n_text)
    /\ n_pc' = "done"
    /\ UNCHANGED <<n_prior, n_input, n_sent, n_src, n_end, n_text>>
    /\ SessionFrame

\* The stream raises a gateway error: _process_input is left at the `async for`, the
\* run loop reports the error and prompts again.
N_Fail ==
    /\ n_pc = "streaming" /\ n_src = <<>> /\ n_end # "none"
    /\ n_pc' = "raised"
    /\ UNCHANGED <<n_state, n_prior, n_input, n_sent, n_src, n_end, n_text>>
    /\ SessionFrame

NextSession ==
    \/ \E user_input \in SessionInputs, contents \in StreamContents,
          ending \in StreamEndings : N_ProcessInput(user_input, contents, ending)
    \/ N_Chunk
    \/ N_Finish
    \/ N_Fail

----------------------------------------------------------------------------
(* Specifications: each component on its own, the other components idle.  *)

\* Before any call: a client with no call in progress, no graph run in progress.
GatewayInit ==
    /\ g_kind = "none" /\ g_pc = "idle" /\ g_attempt = 0 /\ g_delay = RETRY_DELAY
    /\ g_last_error = NoError /\ g_attempts = 0 /\ g_sleeps = <<>> /\ g_result = NoError
    /\ g_src = <<>> /\ g_srcfail = NoExc /\ g_out = <<>> /\ g_from = <<>>
    /\ t_state = DefaultDialogueState
    /\ t_arg = t_state /\ t_prior = t_state /\ t_pc = "idle" /\ t_node = "none"
    /\ t_trace = <<>> /\ t_calls = 0 /\ t_err = "none" /\ t_input = <<>>
    /\ r_which = "none" /\ r_out = "none"
    /\ s_state = DefaultSearchState
    /\ s_arg = s_state /\ s_prior = s_state /\ s_pc = "idle" /\ s_node = "none"
    /\ s_trace = <<>> /\ s_calls = 0 /\ s_err = "none" /\ s_replies = <<>>
    /\ e_state = DefaultLatexState /\ e_pc = "idle" /\ e_node = "none"
    /\ e_trace = <<>> /\ e_calls = 0 /\ e_err = "none" /\ e_log = <<>>
    /\ o_state = DefaultOrchestratorState /\ o_arg = o_state /\ o_prior = o_state
    /\ o_pc = "idle" /\ o_node = "none" /\ o_trace = <<>> /\ o_err = "none"
    /\ o_input = <<>> /\ o_sub = "none"
    /\ c_last = NoOutcome
    /\ x_entry = "none" /\ x_pc = "idle" /\ x_arg = NoState /\ x_prior = NoState
    /\ x_input = <<>> /\ x_branch = "none" /\ x_query = NoQuery /\ x_src = <<>>
    /\ x_end = "none" /\ x_out = <<>>
    /\ p_fn = "none" /\ p_in = NoInput /\ p_out = NoInput
    /\ k_calls = [c \in Callers |-> IdleCall] /\ k_module = ModuleNames
    /\ n_kind = "none" /\ n_pc = "idle" /\ n_state = NoState /\ n_prior = NoState
    /\ n_input = <<>> /\ n_sent = <<>> /\ n_src = <<>> /\ n_end = "none" /\ n_text = <<>>

\* The gateway alone.
GatewaySpec == GatewayInit /\ [][NextGateway]_vars

\* A caller holding any DialogueState, before it calls chat.
DialogueInit ==
    /\ g_kind = "none" /\ g_pc = "idle" /\ g_attempt = 0 /\ g_delay = RETRY_DELAY
    /\ g_last_error = NoError /\ g_attempts = 0 /\ g_sleeps = <<>> /\ g_result = NoError
    /\ g_src = <<>> /\ g_srcfail = NoExc /\ g_out = <<>> /\ g_from = <<>>
    /\ t_state \in DialogueStates
    /\ t_arg = t_state /\ t_prior = t_state /\ t_pc = "idle" /\ t_node = "none"
    /\ t_trace = <<>> /\ t_calls = 0 /\ t_err = "none" /\ t_input = <<>>
    /\ r_which = "none" /\ r_out = "none"
    /\ s_state = DefaultSearchState
    /\ s_arg = s_state /\ s_prior = s_state /\ s_pc = "idle" /\ s_node = "none"
    /\ s_trace = <<>> /\ s_calls = 0 /\ s_err = "none" /\ s_replies = <<>>
    /\ e_state = DefaultLatexState /\ e_pc = "idle" /\ e_node = "none"
    /\ e_trace = <<>> /\ e_calls = 0 /\ e_err = "none" /\ e_log = <<>>
    /\ o_state = DefaultOrchestratorState /\ o_arg = o_state /\ o_prior = o_state
    /\ o_pc = "idle" /\ o_node = "none" /\ o_trace = <<>> /\ o_err = "none"
    /\ o_input = <<>> /\ o_sub = "none"
    /\ c_last = NoOutcome
    /\ x_entry = "none" /\ x_pc = "idle" /\ x_arg = NoState /\ x_prior = NoState
    /\ x_input = <<>> /\ x_branch = "none" /\ x_query = NoQuery /\ x_src = <<>>
    /\ x_end = "none" /\ x_out = <<>>
    /\ p_fn = "none" /\ p_in = NoInput /\ p_out = NoInput
    /\ k_calls = [c \in Callers |-> IdleCall] /\ k_module = ModuleNames
    /\ n_kind = "none" /\ n_pc = "idle" /\ n_state = NoState /\ n_prior = NoState
    /\ n_input = <<>> /\ n_sent = <<>> /\ n_src = <<>> /\ n_end = "none" /\ n_text = <<>>

\* The dialogue agent alone, started on any DialogueState.
DialogueSpec == DialogueInit /\ [][NextDialogue]_vars

\* Any DialogueState, before a router is applied to it.
RouterInit ==
    /\ g_kind = "none" /\ g_pc = "idle" /\ g_attempt = 0 /\ g_delay = RETRY_DELAY
    /\ g_last_error = NoError /\ g_attempts = 0 /\ g_sleeps = <<>> /\ g_result = NoError
    /\ g_src = <<>> /\ g_srcfail = NoExc /\ g_out = <<>> /\ g_from = <<>>
    /\ t_state \in DialogueStates
    /\ t_arg = t_state /\ t_prior = t_state /\ t_pc = "idle" /\ t_node = "none"
    /\ t_trace = <<>> /\ t_calls = 0 /\ t_err = "none" /\ t_input = <<>>
    /\ r_which = "none" /\ r_out = "none"
    /\ s_state = DefaultSearchState
    /\ s_arg = s_state /\ s_prior = s_state /\ s_pc = "idle" /\ s_node = "none"
    /\ s_trace = <<>> /\ s_calls = 0 /\ s_err = "none" /\ s_replies = <<>>
    /\ e_state = DefaultLatexState /\ e_pc = "idle" /\ e_node = "none"
    /\ e_trace = <<>> /\ e_calls = 0 /\ e_err = "none" /\ e_log = <<>>
    /\ o_state = DefaultOrchestratorState /\ o_arg = o_state /\ o_prior = o_state
    /\ o_pc = "idle" /\ o_node = "none" /\ o_trace = <<>> /\ o_err = "none"
    /\ o_input = <<>> /\ o_sub = "none"
    /\ c_last = NoOutcome
    /\ x_entry = "none" /\ x_pc = "idle" /\ x_arg = NoState /\ x_prior = NoState
    /\ x_input = <<>> /\ x_branch = "none" /\ x_query = NoQuery /\ x_src = <<>>
    /\ x_end = "none" /\ x_out = <<>>
    /\ p_fn = "none" /\ p_in = NoInput /\ p_out = NoInput
    /\ k_calls = [c \in Callers |-> IdleCall] /\ k_module = ModuleNames
    /\ n_kind = "none" /\ n_pc = "idle" /\ n_state = NoState /\ n_prior = NoState
    /\ n_input = <<>> /\ n_sent = <<>> /\ n_src = <<>> /\ n_end = "none" /\ n_text = <<>>

\* The dialogue routers applied to any DialogueState.
RouterSpec == RouterInit /\ [][NextRouter]_vars

\* A caller holding any SearchState, before it calls search.
SearchInit ==
    /\ g_kind = "none" /\ g_pc = "idle" /\ g_attempt = 0 /\ g_delay = RETRY_DELAY
    /\ g_last_error = NoError /\ g_attempts = 0 /\ g_sleeps = <<>> /\ g_result = NoError
    /\ g_src = <<>> /\ g_srcfail = NoExc /\ g_out = <<>> /\ g_from = <<>>
    /\ t_state = DefaultDialogueState
    /\ t_arg = t_state /\ t_prior = t_state /\ t_pc = "idle" /\ t_node = "none"
    /\ t_trace = <<>> /\ t_calls = 0 /\ t_err = "none" /\ t_input = <<>>
    /\ r_which = "none" /\ r_out = "none"
    /\ s_state \in SearchStates
    /\ s_arg = s_state /\ s_prior = s_state /\ s_pc = "idle" /\ s_node = "none"
    /\ s_trace = <<>> /\ s_calls = 0 /\ s_err = "none" /\ s_replies = <<>>
    /\ e_state = DefaultLatexState /\ e_pc = "idle" /\ e_node = "none"
    /\ e_trace = <<>> /\ e_calls = 0 /\ e_err = "none" /\ e_log = <<>>
    /\ o_state = DefaultOrchestratorState /\ o_arg = o_state /\ o_prior = o_state
    /\ o_pc = "idle" /\ o_node = "none" /\ o_trace = <<>> /\ o_err = "none"
    /\ o_input = <<>> /\ o_sub = "none"
    /\ c_last = NoOutcome
    /\ x_entry = "none" /\ x_pc = "idle" /\ x_arg = NoState /\ x_prior = NoState
    /\ x_input = <<>> /\ x_branch = "none" /\ x_query = NoQuery /\ x_src = <<>>
    /\ x_end = "none" /\ x_out = <<>>
    /\ p_fn = "none" /\ p_in = NoInput /\ p_out = NoInput
    /\ k_calls = [c \in Callers |-> IdleCall] /\ k_module = ModuleNames
    /\ n_kind = "none" /\ n_pc = "idle" /\ n_state = NoState /\ n_prior = NoState
    /\ n_input = <<>> /\ n_sent = <<>> /\ n_src = <<>> /\ n_end = "none" /\ n_text = <<>>

\* The literature-search agent alone, started on any SearchState.
SearchSpec == SearchInit /\ [][NextSearch]_vars

\* Before any edit call.
EditInit ==
    /\ g_kind = "none" /\ g_pc = "idle" /\ g_attempt = 0 /\ g_delay = RETRY_DELAY
    /\ g_last_error = NoError /\ g_attempts = 0 /\ g_sleeps = <<>> /\ g_result = NoError
    /\ g_src = <<>> /\ g_srcfail = NoExc /\ g_out = <<>> /\ g_from = <<>>
    /\ t_state = DefaultDialogueState
    /\ t_arg = t_state /\ t_prior = t_state /\ t_pc = "idle" /\ t_node = "none"
    /\ t_trace = <<>> /\ t_calls = 0 /\ t_err = "none" /\ t_input = <<>>
    /\ r_which = "none" /\ r_out = "none"
    /\ s_state = DefaultSearchState
    /\ s_arg = s_state /\ s_prior = s_state /\ s_pc = "idle" /\ s_node = "none"
    /\ s_trace = <<>> /\ s_calls = 0 /\ s_err = "none" /\ s_replies = <<>>
    /\ e_state = DefaultLatexState /\ e_pc = "idle" /\ e_node = "none"
    /\ e_trace = <<>> /\ e_calls = 0 /\ e_err = "none" /\ e_log = <<>>
    /\ o_state = DefaultOrchestratorState /\ o_arg = o_state /\ o_prior = o_state
    /\ o_pc = "idle" /\ o_node = "none" /\ o_trace = <<>> /\ o_err = "none"
    /\ o_input = <<>> /\ o_sub = "none"
    /\ c_last = NoOutcome
    /\ x_entry = "none" /\ x_pc = "idle" /\ x_arg = NoState /\ x_prior = NoState
    /\ x_input = <<>> /\ x_branch = "none" /\ x_query = NoQuery /\ x_src = <<>>
    /\ x_end = "none" /\ x_out = <<>>
    /\ p_fn = "none" /\ p_in = NoInput /\ p_out = NoInput
    /\ k_calls = [c \in Callers |-> IdleCall] /\ k_module = ModuleNames
    /\ n_kind = "none" /\ n_pc = "idle" /\ n_state = NoState /\ n_prior = NoState
    /\ n_input = <<>> /\ n_sent = <<>> /\ n_src = <<>> /\ n_end = "none" /\ n_text = <<>>

\* The document-editing agent alone.
EditSpec == EditInit /\ [][NextEdit]_vars

\* A caller holding an OrchestratorState, before it calls chat.
OrchestratorInit ==
    /\ g_kind = "none" /\ g_pc = "idle" /\ g_attempt = 0 /\ g_delay = RETRY_DELAY
    /\ g_last_error = NoError /\ g_attempts = 0 /\ g_sleeps = <<>> /\ g_result = NoError
    /\ g_src = <<>> /\ g_srcfail = NoExc /\ g_out = <<>> /\ g_from = <<>>
    /\ t_state = DefaultDialogueState
    /\ t_arg = t_state /\ t_prior = t_state /\ t_pc = "idle" /\ t_node = "none"
    /\ t_trace = <<>> /\ t_calls = 0 /\ t_err = "none" /\ t_input = <<>>
    /\ r_which = "none" /\ r_out = "none"
    /\ s_state = DefaultSearchState
    /\ s_arg = s_state /\ s_prior = s_state /\ s_pc = "idle" /\ s_node = "none"
    /\ s_trace = <<>> /\ s_calls = 0 /\ s_err = "none" /\ s_replies = <<>>
    /\ e_state = DefaultLatexState /\ e_pc = "idle" /\ e_node = "none"
    /\ e_trace = <<>> /\ e_calls = 0 /\ e_err = "none" /\ e_log = <<>>
    /\ o_state \in OrchestratorStates /\ o_arg = o_state /\ o_prior = o_state
    /\ o_pc = "idle" /\ o_node = "none" /\ o_trace = <<>> /\ o_err = "none"
    /\ o_input = <<>> /\ o_sub = "none"
    /\ c_last = NoOutcome
    /\ x_entry = "none" /\ x_pc = "idle" /\ x_arg = NoState /\ x_prior = NoState
    /\ x_input = <<>> /\ x_branch = "none" /\ x_query = NoQuery /\ x_src = <<>>
    /\ x_end = "none" /\ x_out = <<>>
    /\ p_fn = "none" /\ p_in = NoInput /\ p_out = NoInput
    /\ k_calls = [c \in Callers |-> IdleCall] /\ k_module = ModuleNames
    /\ n_kind = "none" /\ n_pc = "idle" /\ n_state = NoState /\ n_prior = NoState
    /\ n_input = <<>> /\ n_sent = <<>> /\ n_src = <<>> /\ n_end = "none" /\ n_text = <<>>

\* The orchestrator with the dialogue and search agents it drives.
OrchestratorSpec == OrchestratorInit /\ [][NextOrchestrator]_vars

\* A graph run of the orchestrator about to execute route on any state.
RouteInit ==
    /\ g_kind = "none" /\ g_pc = "idle" /\ g_attempt = 0 /\ g_delay = RETRY_DELAY
    /\ g_last_error = NoError /\ g_attempts = 0 /\ g_sleeps = <<>> /\ g_result = NoError
    /\ g_src = <<>> /\ g_srcfail = NoExc /\ g_out = <<>> /\ g_from = <<>>
    /\ t_state = DefaultDialogueState
    /\ t_arg = t_state /\ t_prior = t_state /\ t_pc = "idle" /\ t_node = "none"
    /\ t_trace = <<>> /\ t_calls = 0 /\ t_err = "none" /\ t_input = <<>>
    /\ r_which = "none" /\ r_out = "none"
    /\ s_state = DefaultSearchState
    /\ s_arg = s_state /\ s_prior = s_state /\ s_pc = "idle" /\ s_node = "none"
    /\ s_trace = <<>> /\ s_calls = 0 /\ s_err = "none" /\ s_replies = <<>>
    /\ e_state = DefaultLatexState /\ e_pc = "idle" /\ e_node = "none"
    /\ e_trace = <<>> /\ e_calls = 0 /\ e_err = "none" /\ e_log = <<>>
    /\ o_state \in RouteStates /\ o_arg = o_state /\ o_prior = o_state
    /\ o_pc = "running" /\ o_node = "route" /\ o_trace = <<>> /\ o_err = "none"
    /\ o_input = <<>> /\ o_sub = "none"
    /\ c_last = NoOutcome
    /\ x_entry = "none" /\ x_pc = "idle" /\ x_arg = NoState /\ x_prior = NoState
    /\ x_input = <<>> /\ x_branch = "none" /\ x_query = NoQuery /\ x_src = <<>>
    /\ x_end = "none" /\ x_out = <<>>
    /\ p_fn = "none" /\ p_in = NoInput /\ p_out = NoInput
    /\ k_calls = [c \in Callers |-> IdleCall] /\ k_module = ModuleNames
    /\ n_kind = "none" /\ n_pc = "idle" /\ n_state = NoState /\ n_prior = NoState
    /\ n_input = <<>> /\ n_sent = <<>> /\ n_src = <<>> /\ n_end = "none" /\ n_text = <<>>

\* The route phase applied to any OrchestratorState.
RouteSpec == RouteInit /\ [][NextRoute]_vars

\* Before any call of any agent.
AgentsInit ==
    /\ g_kind = "none" /\ g_pc = "idle" /\ g_attempt = 0 /\ g_delay = RETRY_DELAY
    /\ g_last_error = NoError /\ g_attempts = 0 /\ g_sleeps = <<>> /\ g_result = NoError
    /\ g_src = <<>> /\ g_srcfail = NoExc /\ g_out = <<>> /\ g_from = <<>>
    /\ t_state = DefaultDialogueState
    /\ t_arg = t_state /\ t_prior = t_state /\ t_pc = "idle" /\ t_node = "none"
    /\ t_trace = <<>> /\ t_calls = 0 /\ t_err = "none" /\ t_input = <<>>
    /\ r_which = "none" /\ r_out = "none"
    /\ s_state = DefaultSearchState
    /\ s_arg = s_state /\ s_prior = s_state /\ s_pc = "idle" /\ s_node = "none"
    /\ s_trace = <<>> /\ s_calls = 0 /\ s_err = "none" /\ s_replies = <<>>
    /\ e_state = DefaultLatexState /\ e_pc = "idle" /\ e_node = "none"
    /\ e_trace = <<>> /\ e_calls = 0 /\ e_err = "none" /\ e_log = <<>>
    /\ o_state = DefaultOrchestratorState /\ o_arg = o_state /\ o_prior = o_state
    /\ o_pc = "idle" /\ o_node = "none" /\ o_trace = <<>> /\ o_err = "none"
    /\ o_input = <<>> /\ o_sub = "none"
    /\ c_last = NoOutcome
    /\ x_entry = "none" /\ x_pc = "idle" /\ x_arg = NoState /\ x_prior = NoState
    /\ x_input = <<>> /\ x_branch = "none" /\ x_query = NoQuery /\ x_src = <<>>
    /\ x_end = "none" /\ x_out = <<>>
    /\ p_fn = "none" /\ p_in = NoInput /\ p_out = NoInput
    /\ k_calls = [c \in Callers |-> IdleCall] /\ k_module = ModuleNames
    /\ n_kind = "none" /\ n_pc = "idle" /\ n_state = NoState /\ n_prior = NoState
    /\ n_input = <<>> /\ n_sent = <<>> /\ n_src = <<>> /\ n_end = "none" /\ n_text = <<>>

\* Any one of the four agents, called from its default state.
AgentsSpec == AgentsInit /\ [][NextAgents]_vars

\* Before any generator is created.
StreamInit ==
    /\ g_kind = "none" /\ g_pc = "idle" /\ g_attempt = 0 /\ g_delay = RETRY_DELAY
    /\ g_last_error = NoError /\ g_attempts = 0 /\ g_sleeps = <<>> /\ g_result = NoError
    /\ g_src = <<>> /\ g_srcfail = NoExc /\ g_out = <<>> /\ g_from = <<>>
    /\ t_state = DefaultDialogueState
    /\ t_arg = t_state /\ t_prior = t_state /\ t_pc = "idle" /\ t_node = "none"
    /\ t_trace = <<>> /\ t_calls = 0 /\ t_err = "none" /\ t_input = <<>>
    /\ r_which = "none" /\ r_out = "none"
    /\ s_state = DefaultSearchState
    /\ s_arg = s_state /\ s_prior = s_state /\ s_pc = "idle" /\ s_node = "none"
    /\ s_trace = <<>> /\ s_calls = 0 /\ s_err = "none" /\ s_replies = <<>>
    /\ e_state = DefaultLatexState /\ e_pc = "idle" /\ e_node = "none"
    /\ e_trace = <<>> /\ e_calls = 0 /\ e_err = "none" /\ e_log = <<>>
    /\ o_state = DefaultOrchestratorState /\ o_arg = o_state /\ o_prior = o_state
    /\ o_pc = "idle" /\ o_node = "none" /\ o_trace = <<>> /\ o_err = "none"
    /\ o_input = <<>> /\ o_sub = "none"
    /\ c_last = NoOutcome
    /\ x_entry = "none" /\ x_pc = "idle" /\ x_arg = NoState /\ x_prior = NoState
    /\ x_input = <<>> /\ x_branch = "none" /\ x_query = NoQuery /\ x_src = <<>>
    /\ x_end = "none" /\ x_out = <<>>
    /\ p_fn = "none" /\ p_in = NoInput /\ p_out = NoInput
    /\ k_calls = [c \in Callers |-> IdleCall] /\ k_module = ModuleNames
    /\ n_kind = "none" /\ n_pc = "idle" /\ n_state = NoState /\ n_prior = NoState
    /\ n_input = <<>> /\ n_sent = <<>> /\ n_src = <<>> /\ n_end = "none" /\ n_text = <<>>

\* The four streaming entry points, one generator at a time.
StreamSpec == StreamInit /\ [][NextStream]_vars

\* The executor about to run the search phase of the orchestrator on any state.
BibliographosNodeInit ==
    /\ g_kind = "none" /\ g_pc = "idle" /\ g_attempt = 0 /\ g_delay = RETRY_DELAY
    /\ g_last_error = NoError /\ g_attempts = 0 /\ g_sleeps = <<>> /\ g_result = NoError
    /\ g_src = <<>> /\ g_srcfail = NoExc /\ g_out = <<>> /\ g_from = <<>>
    /\ t_state = DefaultDialogueState
    /\ t_arg = t_state /\ t_prior = t_state /\ t_pc = "idle" /\ t_node = "none"
    /\ t_trace = <<>> /\ t_calls = 0 /\ t_err = "none" /\ t_input = <<>>
    /\ r_which = "none" /\ r_out = "none"
    /\ s_state = DefaultSearchState
    /\ s_arg = s_state /\ s_prior = s_state /\ s_pc = "idle" /\ s_node = "none"
    /\ s_trace = <<>> /\ s_calls = 0 /\ s_err = "none" /\ s_replies = <<>>
    /\ e_state = DefaultLatexState /\ e_pc = "idle" /\ e_node = "none"
    /\ e_trace = <<>> /\ e_calls = 0 /\ e_err = "none" /\ e_log = <<>>
    /\ o_state \in BibliographosNodeStates /\ o_arg = o_state /\ o_prior = o_state
    /\ o_pc = "running" /\ o_node = "bibliographos" /\ o_trace = <<>> /\ o_err = "none"
    /\ o_input = <<>> /\ o_sub = "none"
    /\ c_last = NoOutcome
    /\ x_entry = "none" /\ x_pc = "idle" /\ x_arg = NoState /\ x_prior = NoState
    /\ x_input = <<>> /\ x_branch = "none" /\ x_query = NoQuery /\ x_src = <<>>
    /\ x_end = "none" /\ x_out = <<>>
    /\ p_fn = "none" /\ p_in = NoInput /\ p_out = NoInput
    /\ k_calls = [c \in Callers |-> IdleCall] /\ k_module = ModuleNames
    /\ n_kind = "none" /\ n_pc = "idle" /\ n_state = NoState /\ n_prior = NoState
    /\ n_input = <<>> /\ n_sent = <<>> /\ n_src = <<>> /\ n_end = "none" /\ n_text = <<>>

\* The search phase of the orchestrator applied to any OrchestratorState.
BibliographosNodeSpec == BibliographosNodeInit /\ [][NextBibliographosNode]_vars

\* Before _classify_error is applied to anything.
ClassifyInit ==
    /\ g_kind = "none" /\ g_pc = "idle" /\ g_attempt = 0 /\ g_delay = RETRY_DELAY
    /\ g_last_error = NoError /\ g_attempts = 0 /\ g_sleeps = <<>> /\ g_result = NoError
    /\ g_src = <<>> /\ g_srcfail = NoExc /\ g_out = <<>> /\ g_from = <<>>
    /\ t_state = DefaultDialogueState
    /\ t_arg = t_state /\ t_prior = t_state /\ t_pc = "idle" /\ t_node = "none"
    /\ t_trace = <<>> /\ t_calls = 0 /\ t_err = "none" /\ t_input = <<>>
    /\ r_which = "none" /\ r_out = "none"
    /\ s_state = DefaultSearchState
    /\ s_arg = s_state /\ s_prior = s_state /\ s_pc = "idle" /\ s_node = "none"
    /\ s_trace = <<>> /\ s_calls = 0 /\ s_err = "none" /\ s_replies = <<>>
    /\ e_state = DefaultLatexState /\ e_pc = "idle" /\ e_node = "none"
    /\ e_trace = <<>> /\ e_calls = 0 /\ e_err = "none" /\ e_log = <<>>
    /\ o_state = DefaultOrchestratorState /\ o_arg = o_state /\ o_prior = o_state
    /\ o_pc = "idle" /\ o_node = "none" /\ o_trace = <<>> /\ o_err = "none"
    /\ o_input = <<>> /\ o_sub = "none"
    /\ c_last = NoOutcome
    /\ x_entry = "none" /\ x_pc = "idle" /\ x_arg = NoState /\ x_prior = NoState
    /\ x_input = <<>> /\ x_branch = "none" /\ x_query = NoQuery /\ x_src = <<>>
    /\ x_end = "none" /\ x_out = <<>>
    /\ p_fn = "none" /\ p_in = NoInput /\ p_out = NoInput
    /\ k_calls = [c \in Callers |-> IdleCall] /\ k_module = ModuleNames
    /\ n_kind = "none" /\ n_pc = "idle" /\ n_state = NoState /\ n_prior = NoState
    /\ n_input = <<>> /\ n_sent = <<>> /\ n_src = <<>> /\ n_end = "none" /\ n_text = <<>>

\* _classify_error applied to any exception.
ClassifySpec == ClassifyInit /\ [][NextClassify]_vars

\* No complete() call in progress.
ConcurrentInit ==
    /\ g_kind = "none" /\ g_pc = "idle" /\ g_attempt = 0 /\ g_delay = RETRY_DELAY
    /\ g_last_error = NoError /\ g_attempts = 0 /\ g_sleeps = <<>> /\ g_result = NoError
    /\ g_src = <<>> /\ g_srcfail = NoExc /\ g_out = <<>> /\ g_from = <<>>
    /\ t_state = DefaultDialogueState
    /\ t_arg = t_state /\ t_prior = t_state /\ t_pc = "idle" /\ t_node = "none"
    /\ t_trace = <<>> /\ t_calls = 0 /\ t_err = "none" /\ t_input = <<>>
    /\ r_which = "none" /\ r_out = "none"
    /\ s_state = DefaultSearchState
    /\ s_arg = s_state /\ s_prior = s_state /\ s_pc = "idle" /\ s_node = "none"
    /\ s_trace = <<>> /\ s_calls = 0 /\ s_err = "none" /\ s_replies = <<>>
    /\ e_state = DefaultLatexState /\ e_pc = "idle" /\ e_node = "none"
    /\ e_trace = <<>> /\ e_calls = 0 /\ e_err = "none" /\ e_log = <<>>
    /\ o_state = DefaultOrchestratorState /\ o_arg = o_state /\ o_prior = o_state
    /\ o_pc = "idle" /\ o_node = "none" /\ o_trace = <<>> /\ o_err = "none"
    /\ o_input = <<>> /\ o_sub = "none"
    /\ c_last = NoOutcome
    /\ x_entry = "none" /\ x_pc = "idle" /\ x_arg = NoState /\ x_prior = NoState
    /\ x_input = <<>> /\ x_branch = "none" /\ x_query = NoQuery /\ x_src = <<>>
    /\ x_end = "none" /\ x_out = <<>>
    /\ p_fn = "none" /\ p_in = NoInput /\ p_out = NoInput
    /\ k_calls = [c \in Callers |-> IdleCall] /\ k_module = ModuleNames
    /\ n_kind = "none" /\ n_pc = "idle" /\ n_state = NoState /\ n_prior = NoState
    /\ n_input = <<>> /\ n_sent = <<>> /\ n_src = <<>> /\ n_end = "none" /\ n_text = <<>>

\* Two callers whose complete() calls interleave.
ConcurrentSpec == ConcurrentInit /\ [][NextConcurrent]_vars

\* Before format_bibtex is applied to anything.
FormatInit ==
    /\ g_kind = "none" /\ g_pc = "idle" /\ g_attempt = 0 /\ g_delay = RETRY_DELAY
    /\ g_last_error = NoError /\ g_attempts = 0 /\ g_sleeps = <<>> /\ g_result = NoError
    /\ g_src = <<>> /\ g_srcfail = NoExc /\ g_out = <<>> /\ g_from = <<>>
    /\ t_state = DefaultDialogueState
    /\ t_arg = t_state /\ t_prior = t_state /\ t_pc = "idle" /\ t_node = "none"
    /\ t_trace = <<>> /\ t_calls = 0 /\ t_err = "none" /\ t_input = <<>>
    /\ r_which = "none" /\ r_out = "none"
    /\ s_state = DefaultSearchState
    /\ s_arg = s_state /\ s_prior = s_state /\ s_pc = "idle" /\ s_node = "none"
    /\ s_trace = <<>> /\ s_calls = 0 /\ s_err = "none" /\ s_replies = <<>>
    /\ e_state = DefaultLatexState /\ e_pc = "idle" /\ e_node = "none"
    /\ e_trace = <<>> /\ e_calls = 0 /\ e_err = "none" /\ e_log = <<>>
    /\ o_state = DefaultOrchestratorState /\ o_arg = o_state /\ o_prior = o_state
    /\ o_pc = "idle" /\ o_node = "none" /\ o_trace = <<>> /\ o_err = "none"
    /\ o_input = <<>> /\ o_sub = "none"
    /\ c_last = NoOutcome
    /\ x_entry = "none" /\ x_pc = "idle" /\ x_arg = NoState /\ x_prior = NoState
    /\ x_input = <<>> /\ x_branch = "none" /\ x_query = NoQuery /\ x_src = <<>>
    /\ x_end = "none" /\ x_out = <<>>
    /\ p_fn = "none" /\ p_in = NoInput /\ p_out = NoInput
    /\ k_calls = [c \in Callers |-> IdleCall] /\ k_module = ModuleNames
    /\ n_kind = "none" /\ n_pc = "idle" /\ n_state = NoState /\ n_prior = NoState
    /\ n_input = <<>> /\ n_sent = <<>> /\ n_src = <<>> /\ n_end = "none" /\ n_text = <<>>

\* format_bibtex applied to any citation.
FormatSpec == FormatInit /\ [][NextFormat]_vars

\* A session just constructed, of one of the three kinds.
SessionInit ==
    /\ g_kind = "none" /\ g_pc = "idle" /\ g_attempt = 0 /\ g_delay = RETRY_DELAY
    /\ g_last_error = NoError /\ g_attempts = 0 /\ g_sleeps = <<>> /\ g_result = NoError
    /\ g_src = <<>> /\ g_srcfail = NoExc /\ g_out = <<>> /\ g_from = <<>>
    /\ t_state = DefaultDialogueState
    /\ t_arg = t_state /\ t_prior = t_state /\ t_pc = "idle" /\ t_node = "none"
    /\ t_trace = <<>> /\ t_calls = 0 /\ t_err = "none" /\ t_input = <<>>
    /\ r_which = "none" /\ r_out = "none"
    /\ s_state = DefaultSearchState
    /\ s_arg = s_state /\ s_prior = s_state /\ s_pc = "idle" /\ s_node = "none"
    /\ s_trace = <<>> /\ s_calls = 0 /\ s_err = "none" /\ s_replies = <<>>
    /\ e_state = DefaultLatexState /\ e_pc = "idle" /\ e_node = "none"
    /\ e_trace = <<>> /\ e_calls = 0 /\ e_err = "none" /\ e_log = <<>>
    /\ o_state = DefaultOrchestratorState /\ o_arg = o_state /\ o_prior = o_state
    /\ o_pc = "idle" /\ o_node = "none" /\ o_trace = <<>> /\ o_err = "none"
    /\ o_input = <<>> /\ o_sub = "none"
    /\ c_last = NoOutcome
    /\ x_entry = "none" /\ x_pc = "idle" /\ x_arg = NoState /\ x_prior = NoState
    /\ x_input = <<>> /\ x_branch = "none" /\ x_query = NoQuery /\ x_src = <<>>
    /\ x_end = "none" /\ x_out = <<>>
    /\ p_fn = "none" /\ p_in = NoInput /\ p_out = NoInput
    /\ k_calls = [c \in Callers |-> IdleCall] /\ k_module = ModuleNames
    /\ n_kind \in SessionKinds /\ n_pc = "idle" /\ n_state = SessionDefault(n_kind)
    /\ n_prior = n_state
    /\ n_input = <<>> /\ n_sent = <<>> /\ n_src = <<>> /\ n_end = "none" /\ n_text = <<>>

\* The interactive sessions alone.
SessionSpec == SessionInit /\ [][NextSession]_vars

----------------------------------------------------------------------------
(* Properties of the completion gateway (GatewaySpec).                     *)

\* A step in which an attempt fails with an error classified into one of `classes`:
\* the except clause is the only way from an attempt to a sleep or a raise.
FailedWith(classes) ==
    /\ g_pc \in {"attempt", "streaming"}
    /\ g_pc' \in {"sleeping", "raised"}
    /\ g_last_error'.class \in classes

\* C8: one call of complete, or of stream, makes at most MAX_RETRIES = 3 attempts
\* against the completion service, whatever failures the service produces.
C8_AtMostThreeAttempts == g_attempts <= 3

C8_Witness ==
    /\ g_pc = "raised"
    /\ g_attempts = 3
    /\ Len(g_sleeps) = 3
    /\ g_result.class = "RateLimitError"

\* C9: an attempt of complete or stream that fails with an Authentication or generic
\* LLMError classification raises that error in the same step, at any attempt index:
\* nothing is slept, and after the raise the call makes no further attempt (the only
\* step that follows is the start of a new call).
C9_AuthAndGenericRaiseAtOnce ==
    [][ /\ FailedWith({"AuthenticationError", "LLMError"}) =>
            /\ g_pc' = "raised"
            /\ g_result' = g_last_error'
            /\ g_sleeps' = g_sleeps
        /\ g_pc = "raised" => (g_pc' = "attempt" /\ g_attempts' = 0 /\ g_sleeps' = <<>>)
      ]_vars

C9_Witness ==
    /\ g_pc = "raised"
    /\ g_result = AuthenticationError("unknown")
    /\ g_attempts = 2
    /\ Len(g_sleeps) = 1

\* C10: in complete, an attempt that fails with a Network classification sleeps for
\* the current delay and is followed by a retry if fewer than 3 attempts have been
\* made; on the third attempt it raises NetworkError without sleeping.
C10_NetworkRetriesWhileAttemptsRemain ==
    [][ /\ (g_kind = "complete" /\ FailedWith({"NetworkError"})) =>
            IF g_attempts' < 3
              THEN g_pc' = "sleeping" /\ g_sleeps' = Append(g_sleeps, g_delay)
              ELSE g_pc' = "raised" /\ g_result' = NetworkError /\ g_sleeps' = g_sleeps
        /\ (g_kind = "complete" /\ g_pc = "sleeping" /\ g_last_error = NetworkError) =>
            g_pc' = "attempt" /\ g_attempts' = g_attempts
      ]_vars

C10_Witness ==
    /\ g_kind = "complete"
    /\ g_pc = "raised"
    /\ g_result = NetworkError
    /\ g_attempts = 3
    /\ g_sleeps = <<1, 2>>

\* C11: every sleep that follows a rate-limit failure of complete or stream is followed
\* by another attempt against the completion service.
C11_RateLimitSleepThenRetry ==
    [][ (g_pc = "sleeping" /\ g_last_error.class = "RateLimitError") =>
            (g_pc' = "attempt" /\ g_attempts' = g_attempts) ]_vars

\* C12: complete raises RateLimitError only when retries are exhausted: all 3 attempts
\* have been made and the last of them failed with a rate-limit classification.
C12_RateLimitRaisedOnlyWhenExhausted ==
    (g_kind = "complete" /\ g_pc = "raised" /\ g_result.class = "RateLimitError") =>
        /\ g_attempts = 3
        /\ g_last_error.class = "RateLimitError"
        /\ g_result = g_last_error

C12_Witness ==
    /\ g_kind = "complete"
    /\ g_pc = "raised"
    /\ g_result = RateLimitError(Some(RetryAfterSample))
    /\ g_attempts = 3
    /\ g_sleeps = <<1, 2, RetryAfterSample>>

\* C13: in one complete call the delay is 1 before the first backoff and doubles after
\* every backoff, whether the sleep used a retry-after value or the delay; so the n-th
\* backoff, when the failure carries no retry-after, sleeps 2^(n-1) seconds.
C13_DelayDoublesPerBackoff ==
    g_kind = "complete" =>
        /\ g_delay = 2 ^ (IF g_pc = "sleeping" THEN Len(g_sleeps) - 1 ELSE Len(g_sleeps))
        /\ (g_pc = "sleeping"
              /\ (g_last_error.class = "RateLimitError" => ~g_last_error.retry_after.some)) =>
               g_sleeps[Len(g_sleeps)] = 2 ^ (Len(g_sleeps) - 1)

C13_Witness ==
    /\ g_kind = "complete"
    /\ g_pc = "sleeping"
    /\ g_sleeps = <<RetryAfterSample, 2, 4>>
    /\ g_delay = 4

----------------------------------------------------------------------------
(* Properties of the dialogue agent (DialogueSpec, RouterSpec).            *)

\* C1: a chat call whose completions all succeed ends by reaching the terminal marker
\* and returning the state: a run that is over and met no gateway error has returned.
C1_ChatReachesEnd ==
    (t_pc \in {"returned", "raised", "limit"} /\ t_err = "none") => t_pc = "returned"

\* C6 as stated: for every DialogueState with at least 3 objections, whatever its
\* thesis and phase, the challenge router returns synthesize.
C6_ChallengeRouterSynthesizes ==
    (r_which = "challenge" /\ Len(t_state.objections) >= 3) => r_out = "synthesize"

\* C6 amended: for every DialogueState with at least 3 objections the challenge router
\* returns synthesize when phase is not end and end when phase is end; it never
\* returns challenge.
C6_ChallengeRouterSynthesizesUnlessEnd ==
    (r_which = "challenge" /\ Len(t_state.objections) >= 3) =>
        r_out = IF t_state.phase = "end" THEN "end" ELSE "synthesize"

C6_Witness ==
    /\ r_which = "challenge"
    /\ Len(t_state.objections) = 3
    /\ t_state.phase = "challenge"
    /\ t_state.thesis = <<>>
    /\ r_out = "synthesize"

\* C7: when the clarify phase has run on a state whose phase is not end, the phase
\* chosen next is clarify if thesis is empty and challenge otherwise; every execution
\* of a phase, each turn of the self-loop included, has issued one completion call.
C7_ClarifyRouter ==
    (/\ t_pc \in {"running", "returned", "limit"}
     /\ t_trace # <<>>
     /\ t_trace[Len(t_trace)] = "clarify"
     /\ t_state.phase # "end") =>
        /\ t_pc # "returned"
        /\ t_node = IF t_state.thesis = <<>> THEN "clarify" ELSE "challenge"
        /\ t_calls = Len(t_trace)

C7_Witness ==
    /\ t_pc = "running"
    /\ t_trace = <<"clarify", "clarify", "clarify">>
    /\ t_calls = 3
    /\ t_state.thesis = <<>>
    /\ t_node = "clarify"

----------------------------------------------------------------------------
(* Properties of the literature-search agent (SearchSpec).                 *)

SearchPipeline == <<"search", "extract", "validate">>

\* C2: from any SearchState, default or reused and whatever its phase, a search call
\* runs search, extract, validate once each in that order, one completion call per
\* phase, and a run whose completions all succeed then returns with phase = end and
\* bib_entries equal to the prior bib_entries plus the validate reply as last element
\* (length 1 from the default state).
C2_SearchRunsPipelineOnce ==
    /\ s_pc \in {"running", "returned", "raised"} =>
          /\ IsPrefix(s_trace, SearchPipeline)
          /\ s_calls = Len(s_trace)
    /\ (s_pc = "running" /\ s_trace # <<>>) => s_node = SearchPipeline[Len(s_trace) + 1]
    /\ s_pc = "returned" =>
          /\ s_trace = SearchPipeline
          /\ s_calls = 3
          /\ s_state.phase = "end"
          /\ s_state.bib_entries = s_prior.bib_entries \o <<s_replies[3]>>
          /\ s_prior = DefaultSearchState => Len(s_state.bib_entries) = 1

C2_Witness ==
    /\ s_pc = "returned"
    /\ s_prior.phase = "end"
    /\ Len(s_prior.bib_entries) = 1
    /\ Len(s_prior.messages) = 4
    /\ s_state.bib_entries = <<PriorBib, <<"@", "a">>>>

----------------------------------------------------------------------------
(* Properties of the document-editing agent (EditSpec).                    *)

\* The last phase of the run has completed (its completion call succeeded).
E_Completed(node) ==
    /\ e_trace # <<>>
    /\ e_trace[Len(e_trace)] = node
    /\ Len(e_log) = Len(e_trace)

\* C3: in every edit run repair executes at most once and nothing executes after it:
\* when repair has completed the run has reached the terminal marker, whether or not
\* the checker still reports diagnostics on the repaired content.
C3_RepairIsSinglePass ==
    /\ Cardinality({i \in 1..Len(e_trace) : e_trace[i] = "repair"}) <= 1
    /\ \A i \in 1..Len(e_trace) : e_trace[i] = "repair" => i = Len(e_trace)
    /\ E_Completed("repair") => (e_pc = "returned" /\ e_node = "end")

C3_Witness ==
    /\ e_pc = "returned"
    /\ e_trace = <<"analyze", "edit", "repair">>
    /\ e_state.content = DocUnclosed
    /\ e_state.errors # <<>>

\* C4: when analyze has completed, the next phase is edit iff the syntax checker finds
\* no diagnostic on the current content and repair iff it finds at least one; a run
\* whose analyze found diagnostics never executes edit.
C4_AnalyzeRoutesOnDiagnostics ==
    /\ (E_Completed("analyze") /\ Len(e_trace) = 1) =>
          /\ e_pc = "running"
          /\ e_node \in {"edit", "repair"}
          /\ e_node = "edit" <=> CheckSyntax(e_state.content) = <<>>
          /\ e_node = "repair" <=> Len(CheckSyntax(e_state.content)) >= 1
    /\ (e_log # <<>> /\ CheckSyntax(e_log[1].content) # <<>>) =>
          \A i \in 1..Len(e_trace) : e_trace[i] # "edit"

C4_Witness ==
    /\ e_pc = "returned"
    /\ e_trace = <<"analyze", "repair">>
    /\ e_log[1].content = DocUnclosed
    /\ e_log[1].errors = << <<"Unclosed environment: ", "a">> >>

\* C5: when edit has completed, content is the text extracted from the model reply,
\* errors is the checker's result on it, and the next phase is repair if there is at
\* least one diagnostic and the terminal marker otherwise.
C5_EditRoutesOnNewDiagnostics ==
    E_Completed("edit") =>
        /\ e_state.content = ExtractLatex(e_log[Len(e_log)].reply)
        /\ e_state.errors = CheckSyntax(e_state.content)
        /\ IF Len(CheckSyntax(e_state.content)) >= 1
             THEN e_pc = "running" /\ e_node = "repair"
             ELSE e_pc = "returned" /\ e_node = "end"

C5_Witness ==
    /\ E_Completed("edit")
    /\ e_log[2].reply = ReplyLatexBad
    /\ e_state.content = <<"{", "x">>
    /\ e_state.errors = << <<"Unclosed brace">> >>
    /\ e_node = "repair"

----------------------------------------------------------------------------
(* Properties of the orchestrator (RouteSpec, OrchestratorSpec).           *)

\* C16: when route runs on a state whose message sequence is empty or ends with a
\* message of a role other than user, active_agent becomes theoretikos whatever the
\* content of that message and whatever pending_search holds, and pending_search (like
\* every other field) keeps its value.
C16_RouteDefaultsToDialogue ==
    (/\ o_trace = <<"route">>
     /\ \/ o_prior.messages = <<>>
        \/ o_prior.messages[Len(o_prior.messages)].role # "user") =>
        /\ o_state.active_agent = "theoretikos"
        /\ o_state.pending_search = o_prior.pending_search
        /\ o_state = [o_prior EXCEPT !.active_agent = "theoretikos"]
        /\ o_node = "theoretikos"

C16_Witness ==
    /\ o_trace = <<"route">>
    /\ o_prior.messages = <<Message("assistant", InputFindPapers)>>
    /\ o_prior.active_agent = "bibliographos"
    /\ o_prior.pending_search = Query(<<"q">>)
    /\ o_state.active_agent = "theoretikos"
    /\ o_state.pending_search = Query(<<"q">>)

\* C17: when route runs on a state whose last message is a user message: if its content
\* matches a handoff pattern, case-insensitively, active_agent becomes bibliographos and
\* pending_search is the text after the match of the first pattern, in list order, that
\* matches, trimmed and cut at 200 characters, or the whole message cut at 200
\* characters when no text remains after that match; if no pattern matches,
\* active_agent becomes theoretikos.
C17_RouteDerivesQueryFromFirstMatch ==
    (/\ o_trace = <<"route">>
     /\ o_prior.messages # <<>>
     /\ o_prior.messages[Len(o_prior.messages)].role = "user") =>
        LET content == o_prior.messages[Len(o_prior.messages)].content
            matching == {p \in 1..Len(HANDOFF_PATTERNS) : ReSearch(HANDOFF_PATTERNS[p], content)}
            first == CHOOSE p \in matching : \A q \in matching : p <= q
            after == Strip(Slice(content, MatchEnd(HANDOFF_PATTERNS[first], content),
                                 Len(content)))
        IN IF matching # {}
             THEN /\ o_state.active_agent = "bibliographos"
                  /\ o_state.pending_search =
                        Query(IF after # <<>> THEN Take(after, 200) ELSE Take(content, 200))
             ELSE o_state.active_agent = "theoretikos"

SearchTurn == <<"route", "bibliographos", "integrate">>

\* C18: a chat call whose turn is routed to the search agent executes route,
\* bibliographos, integrate in that order; when it returns, pending_search is cleared,
\* search_results equals the bib_entries of the embedded search state, and messages is
\* the prior sequence, the user turn and one assistant message stating the number
\* len(search_results).
C18_SearchTurn ==
    (o_trace # <<>> /\ IsSearchRequest(o_input)) =>
        /\ IsPrefix(o_trace, SearchTurn)
        /\ o_pc = "returned" =>
              /\ o_trace = SearchTurn
              /\ o_state.pending_search = NoQuery
              /\ o_state.search_results = o_state.search_state.bib_entries
              /\ o_state.messages =
                    o_prior.messages \o
                    << Message("user", o_input),
                       Message("assistant", Summary(Len(o_state.search_results))) >>

C18_Witness ==
    /\ o_pc = "returned"
    /\ o_trace = SearchTurn
    /\ Len(o_prior.messages) = 2
    /\ Len(o_state.search_results) = 2
    /\ o_state.messages[4].content = SummaryHead \o <<"2">> \o SummaryTail

\* C19: when a chat call is routed to the dialogue agent while search_results is not
\* empty, the results are appended to the text handed to the dialogue agent and are then
\* cleared: the state the caller holds after the call has empty search_results.
C19_InjectedResultsAreCleared ==
    (/\ o_pc \in {"returned", "raised"}
     /\ o_err \in {"none", "GraphRecursionError"}
     /\ o_trace = <<"route", "theoretikos">>
     /\ o_prior.search_results # <<>>) =>
        /\ t_input = o_input \o SourcesHeader \o JoinLines(o_prior.search_results)
        /\ O_Threaded.search_results = <<>>

\* C20: a chat call whose turn matches no handoff pattern and whose completions all
\* succeed ends after the dialogue phase, and returns messages equal to the prior
\* sequence, the user turn and one assistant message, the last message the dialogue
\* agent's chat produced.
C20_DialogueTurn ==
    (/\ o_pc \in {"returned", "raised"}
     /\ o_err \in {"none", "GraphRecursionError"}
     /\ ~IsSearchRequest(o_input)) =>
        /\ o_pc = "returned"
        /\ o_trace = <<"route", "theoretikos">>
        /\ t_state.messages[Len(t_state.messages)].role = "assistant"
        /\ o_state.messages =
              o_prior.messages \o
              << Message("user", o_input), t_state.messages[Len(t_state.messages)] >>

----------------------------------------------------------------------------
(* Properties of error propagation through the agent graphs (AgentsSpec).  *)

\* A step in which a phase body's completion call raised a gateway error.
CompletionRaised(calls, calls_after) ==
    /\ calls_after = calls + 1
    /\ ~c_last'.ok

\* C14: when the completion call of a phase body of the dialogue, search or edit graph
\* raises a gateway error, the run is aborted in that step with an error of the same
\* class and no update merged; an orchestrator phase waiting for such a run raises the
\* same class in its turn; and an aborted run executes no later phase and issues no
\* further completion call (the only step that changes it is the start of a new call).
C14_GatewayErrorsAbortTheRun ==
    [][ /\ CompletionRaised(t_calls, t_calls') =>
            (t_pc' = "raised" /\ t_err' = c_last'.class /\ t_state' = t_state)
        /\ CompletionRaised(s_calls, s_calls') =>
            (s_pc' = "raised" /\ s_err' = c_last'.class /\ s_state' = s_state)
        /\ CompletionRaised(e_calls, e_calls') =>
            (e_pc' = "raised" /\ e_err' = c_last'.class /\ e_state' = e_state)
        /\ (o_pc = "running" /\ o_sub = "theoretikos" /\ t_pc = "raised") =>
            (o_pc' = "raised" /\ o_err' = t_err /\ o_trace' = o_trace)
        /\ (o_pc = "running" /\ o_sub = "bibliographos" /\ s_pc = "raised") =>
            (o_pc' = "raised" /\ o_err' = s_err /\ o_trace' = o_trace)
        /\ (t_pc = "raised" /\ o_pc # "running") => (t_pc' = "running" /\ t_calls' = 0)
        /\ (s_pc = "raised" /\ o_pc # "running") => (s_pc' = "running" /\ s_calls' = 0)
        /\ e_pc = "raised" => (e_pc' = "running" /\ e_calls' = 0)
        /\ o_pc = "raised" => (o_pc' = "running" /\ o_trace' = <<>>)
      ]_vars

C14_Witness ==
    /\ o_pc = "raised"
    /\ o_err = "RateLimitError"
    /\ o_trace = <<"route", "bibliographos">>
    /\ s_pc = "raised"
    /\ s_trace = <<"search", "extract">>
    /\ s_calls = 2
    /\ c_last = Raise("RateLimitError")

\* C15: when a gateway error aborts a chat or search run after one or more phases have
\* completed, the state object the caller passed in holds the updates merged from those
\* phases: it equals the state the run had reached.
C15_CallerStateHoldsPartialUpdates ==
    /\ (t_pc = "raised" /\ Len(t_trace) >= 2) => t_arg = t_state
    /\ (s_pc = "raised" /\ Len(s_trace) >= 2) => s_arg = s_state

----------------------------------------------------------------------------
(* Properties of the streaming entry points (StreamSpec).                  *)

\* C21: a streaming entry point writes nothing into the state object the caller
\* supplied: whether the stream is consumed to its end or abandoned after any number of
\* chunks, every field of that object equals its value before the call.
C21_StreamsWriteNothing == x_pc # "idle" => x_arg = x_prior

\* C22: Orchestrator.stream_chat takes the search branch exactly when the route phase
\* of Orchestrator.chat would make the search agent active for the same input, and the
\* query it announces and hands to the search stream is the pending_search the route
\* phase would derive; otherwise it takes the dialogue branch.
C22_StreamBranchMatchesRoute ==
    (x_entry = "orchestrator" /\ x_branch # "none") =>
        LET routed == RouteUpdate(OrchestratorPrepare(StreamOrchestratorState(x_prior),
                                                      x_input))
        IN /\ x_branch \in {"search", "dialogue"}
           /\ (x_branch = "search") <=> (routed.active_agent = "bibliographos")
           /\ x_branch = "search" =>
                /\ x_out # <<>>
                /\ x_out[1] = Announce(routed.pending_search.text)
                /\ x_query.some => x_query = routed.pending_search
           /\ x_branch = "dialogue" => ~x_query.some

C22_Witness ==
    /\ x_entry = "orchestrator" /\ x_pc = "done"
    /\ x_input = InputFindPapers
    /\ x_branch = "search"
    /\ x_query = Query(<<"x">>)
    /\ x_out = <<Announce(<<"x">>), <<"a">>, <<"b">> >>

----------------------------------------------------------------------------
(* Properties of the state lists within one graph run (AgentsSpec).        *)

\* A step of a run of the dialogue, search or edit agent in which a phase body ran.
PhaseBodyRan(trace, trace_after) == Len(trace_after) = Len(trace) + 1

----------------------------------------------------------------------------
(* Properties of the phase field (AgentsSpec).                             *)

\* The edges the three graphs declare (add_conditional_edges), END written "end".
DialogueEdges ==
    { <<"clarify", "challenge">>, <<"clarify", "clarify">>, <<"clarify", "end">>,
      <<"challenge", "synthesize">>, <<"challenge", "challenge">>, <<"challenge", "end">>,
      <<"synthesize", "clarify">>, <<"synthesize", "end">> }

SearchEdges ==
    { <<"search", "extract">>, <<"search", "search">>, <<"search", "end">>,
      <<"extract", "validate">>, <<"extract", "extract">>, <<"extract", "end">>,
      <<"validate", "search">>, <<"validate", "end">> }

EditEdges ==
    { <<"analyze", "edit">>, <<"analyze", "repair">>, <<"analyze", "end">>,
      <<"edit", "repair">>, <<"edit", "end">>,
      <<"repair", "edit">>, <<"repair", "end">> }

\* C24: the phase field of an agent state changes only along a declared edge of the
\* agent's graph: whenever a phase body of a run changes it, in a first run and in a
\* run started on the state an earlier run returned, the new phase is a declared
\* successor of the old one.
C24_PhaseFollowsEdges ==
    [][ /\ (PhaseBodyRan(t_trace, t_trace') /\ t_state'.phase # t_state.phase) =>
              <<t_state.phase, t_state'.phase>> \in DialogueEdges
        /\ (PhaseBodyRan(s_trace, s_trace') /\ s_state'.phase # s_state.phase) =>
              <<s_state.phase, s_state'.phase>> \in SearchEdges
        /\ (PhaseBodyRan(e_trace, e_trace') /\ e_state'.phase # e_state.phase) =>
              <<e_state.phase, e_state'.phase>> \in EditEdges
      ]_vars

----------------------------------------------------------------------------
(* Properties of the orchestrator's search phase on any state              *)
(* (BibliographosNodeSpec).                                                *)

\* C25: when the orchestrator's search phase runs while pending_search is absent or
\* empty, it raises nothing, calls neither the search agent nor the gateway, and its
\* update is empty: every field of the state is as before the phase.
C25_NoPendingSearchIsANoOp ==
    [][ ( /\ o_pc = "running" /\ o_node = "bibliographos" /\ o_sub = "none"
          /\ ~o_state.pending_search.some \/ o_state.pending_search.text = <<>>
          /\ o_trace' = Append(o_trace, "bibliographos") ) =>
            /\ o_state' = o_state
            /\ o_arg' = o_arg
            /\ o_pc' = "running" /\ o_err' = "none" /\ o_sub' = "none"
            /\ o_node' = "integrate"
            /\ UNCHANGED <<svars, gvars, c_last>>
      ]_vars

C25_Witness ==
    /\ o_pc = "running" /\ o_node = "integrate"
    /\ o_trace = <<"bibliographos">>
    /\ o_state.pending_search = Query(<<>>)
    /\ o_state.search_state = QueriedSearchState
    /\ s_pc = "idle" /\ s_calls = 0 /\ c_last = NoOutcome

----------------------------------------------------------------------------
(* Properties of the thesis across chat calls (DialogueSpec).              *)

\* A step that is the entry of a Theoretikos.chat call.
ChatStarted == t_pc # "running" /\ t_pc' = "running" /\ t_trace' = <<>>

\* The text with its letters in lower case, each character in its place.
LettersLowered(s) == [i \in 1..Len(s) |-> LowerChar(s[i])]

\* C26: across chat calls threading one state the thesis is write-once. A call made
\* while thesis is empty with an input that contains "thesis:" in any letter case sets
\* thesis to the trimmed text after the first occurrence of the marker; a call made
\* while thesis is non-empty leaves it as it is, marker or not; no phase changes it.
C26_ThesisIsWriteOnce ==
    [][ IF ChatStarted
          THEN LET lowered == LettersLowered(t_input')
               IN IF t_prior'.thesis # <<>>
                    THEN t_state'.thesis = t_prior'.thesis
                  ELSE IF Contains(lowered, ThesisMarker)
                    THEN t_state'.thesis =
                            Strip(Slice(t_input',
                                        IndexOf(lowered, ThesisMarker) + Len(ThesisMarker),
                                        Len(t_input')))
                  ELSE t_state'.thesis = <<>>
          ELSE t_state'.thesis = t_state.thesis
      ]_vars

----------------------------------------------------------------------------
(* Properties of _classify_error (ClassifySpec).                           *)

\* C27: _classify_error decides by fixed precedence. A lower-cased text containing
\* both "rate" and "limit" gives RateLimit whatever the exception type; otherwise a
\* connection or timeout type, or a text containing "connection", "timeout" or
\* "network", gives Network; otherwise a text containing both "api" and "key" gives
\* Authentication with provider "unknown"; otherwise LLMError whose original is the
\* error passed in. The result is always one of the four classes.
C27_ClassifyByPrecedence ==
    p_fn = "_classify_error" =>
        LET text == Lower(p_in.text)
            rate == Contains(text, <<"r", "a", "t", "e">>) /\ Contains(text, <<"l", "i", "m", "i", "t">>)
            network == \/ p_in.type \in {"ConnectError", "TimeoutException",
                                         "ConnectionError", "TimeoutError"}
                       \/ Contains(text, <<"c", "o", "n", "n", "e", "c", "t", "i", "o", "n">>)
                       \/ Contains(text, <<"t", "i", "m", "e", "o", "u", "t">>)
                       \/ Contains(text, <<"n", "e", "t", "w", "o", "r", "k">>)
            key == Contains(text, <<"a", "p", "i">>) /\ Contains(text, <<"k", "e", "y">>)
        IN /\ p_out.class \in {"RateLimitError", "NetworkError", "AuthenticationError",
                               "LLMError"}
           /\ rate <=> p_out.class = "RateLimitError"
           /\ (~rate /\ network) <=> p_out.class = "NetworkError"
           /\ (~rate /\ ~network /\ key) <=> p_out = AuthenticationError("unknown")
           /\ (~rate /\ ~network /\ ~key) <=> p_out = LLMError(p_in)

C27_Witness ==
    /\ p_fn = "_classify_error"
    /\ p_in.type = "TimeoutError"
    /\ p_in.text = <<"l", "i", "m", "i", "t", " ", "T", "i", "m", "e", "o", "u", "t", " ", "r", "a",
        "t", "e">>
    /\ p_out.class = "RateLimitError"

----------------------------------------------------------------------------
(* Properties of interleaved complete() calls (ConcurrentSpec).            *)

RECURSIVE Power(_, _)
Power(b, n) == IF n = 0 THEN 1 ELSE b * Power(b, n - 1)

\* What the attempts, the delay and the sleeps of one call must be, given only the
\* failures that call itself has met.
OwnRetryState(call) ==
    /\ call.attempts = Len(call.failures) + (IF call.pc = "returned" THEN 1 ELSE 0)
    /\ call.pc = "attempt" =>
          /\ call.attempt = Len(call.failures)
          /\ call.delay = RETRY_DELAY * Power(RETRY_MULTIPLIER, call.attempt)
    /\ Len(call.sleeps) <= Len(call.failures)
    /\ \A i \in 1..Len(call.sleeps) :
          call.sleeps[i] =
              IF /\ call.failures[i].class = "RateLimitError"
                 /\ call.failures[i].retry_after.some
                 /\ call.failures[i].retry_after.secs # 0
                THEN call.failures[i].retry_after.secs
                ELSE RETRY_DELAY * Power(RETRY_MULTIPLIER, i - 1)

\* C29: the gateway keeps its retry state per call. When two complete() calls
\* interleave, on one client or on two, each starts with attempt 0 and delay
\* RETRY_DELAY, its attempts and sleep durations follow from its own failures alone,
\* a step of one call changes nothing of the other, and no module-level name is
\* changed.
C29_RetryStateIsPerCall ==
    /\ [](\A c \in Callers : OwnRetryState(k_calls[c]))
    /\ [](k_module = [MAX_RETRIES |-> MAX_RETRIES, RETRY_DELAY |-> RETRY_DELAY,
                      RETRY_MULTIPLIER |-> RETRY_MULTIPLIER])
    /\ [][ \A c \in Callers :
              k_calls'[c] # k_calls[c] =>
                  \A d \in Callers \ {c} : k_calls'[d] = k_calls[d] ]_vars

C29_Witness ==
    /\ k_calls["a"].pc = "sleeping" /\ Len(k_calls["a"].sleeps) = 2
    /\ k_calls["a"].delay = RETRY_DELAY * RETRY_MULTIPLIER
    /\ k_calls["b"].pc = "attempt" /\ k_calls["b"].attempt = 1
    /\ k_calls["b"].delay = RETRY_DELAY * RETRY_MULTIPLIER
    /\ k_calls["b"].sleeps = <<RetryAfterSample>>
    /\ k_calls["a"].client = k_calls["b"].client

----------------------------------------------------------------------------
(* Properties of format_bibtex (FormatSpec).                               *)

\* C28: format_bibtex renders one stanza that holds the entry type, the key, the title
\* and the year verbatim and the authors in their order joined by " and "; it has a doi
\* field iff doi is present and non-empty, a url field iff url is, an abstract field
\* iff abstract is, and the abstract field holds the first min(500, length) characters
\* of the abstract.
C28_BibtexRendersFields ==
    p_fn = "format_bibtex" =>
        LET c == p_in
            n == Len(c.authors)
            has(field) == field.some /\ field.text # <<>>
            shown == IF Len(c.abstract.text) <= 500 THEN c.abstract.text
                     ELSE SubSeq(c.abstract.text, 1, 500)
        IN /\ IsPrefix(<<"@">> \o c.type \o <<"{">> \o c.key \o <<",", "\n">>, p_out)
           /\ Contains(p_out, <<" ", " ", "t", "i", "t", "l", "e", " ", "=", " ", "{">> \o c.title \o <<"}", ",", "\n">>)
           /\ Contains(p_out, <<" ", " ", "y", "e", "a", "r", " ", "=", " ", "{">> \o c.year \o <<"}", ",", "\n">>)
           /\ \E i \in 1..Len(p_out), j \in 1..Len(p_out) :
                 /\ OccursAt(p_out, <<" ", " ", "a", "u", "t", "h", "o", "r", " ", "=", " ", "{">>, i)
                 /\ OccursAt(p_out, <<"}", ",", "\n", " ", " ", "t", "i", "t", "l", "e">>, j)
                 /\ LET authors == SubSeq(p_out, i + 12, j - 1)
                    IN /\ n = 0 => authors = <<>>
                       /\ n > 0 => IsPrefix(c.authors[1], authors)
                       /\ Len(authors) = (IF n = 0 THEN 0 ELSE 5 * (n - 1))
                                         + Len(Join(<<>>, c.authors))
                       /\ \A k \in 1..(n - 1) :
                             Contains(authors,
                                      c.authors[k] \o <<" ", "a", "n", "d", " ">> \o c.authors[k + 1])
           /\ Contains(p_out, <<"d", "o", "i", " ", "=", " ", "{">>) <=> has(c.doi)
           /\ has(c.doi) => Contains(p_out, <<"d", "o", "i", " ", "=", " ", "{">> \o c.doi.text \o <<"}">>)
           /\ Contains(p_out, <<"u", "r", "l", " ", "=", " ", "{">>) <=> has(c.url)
           /\ has(c.url) => Contains(p_out, <<"u", "r", "l", " ", "=", " ", "{">> \o c.url.text \o <<"}">>)
           /\ Contains(p_out, <<"a", "b", "s", "t", "r", "a", "c", "t", " ", "=", " ", "{">>) <=> has(c.abstract)
           /\ has(c.abstract) =>
                 Contains(p_out, <<"a", "b", "s", "t", "r", "a", "c", "t", " ", "=", " ", "{">> \o shown \o <<"}", "\n", "}">>)
           /\ Len(p_out) > 0 /\ p_out[Len(p_out)] = "}"

C28_Witness ==
    /\ p_fn = "format_bibtex"
    /\ p_in.authors = << <<"B">>, <<"A">>, <<"C">> >>
    /\ p_in.doi = Present(<<"d">>)
    /\ p_in.url = Present(<<>>)
    /\ Len(p_in.abstract.text) = 501
    /\ Len(p_out) = 603

----------------------------------------------------------------------------
(* Properties of the order of phase bodies within a run (AgentsSpec).      *)

\* The number of the four traces to which this step appended a phase.
PhaseBodiesStarted ==
    (IF PhaseBodyRan(t_trace, t_trace') THEN 1 ELSE 0)
    + (IF PhaseBodyRan(s_trace, s_trace') THEN 1 ELSE 0)
    + (IF PhaseBodyRan(e_trace, e_trace') THEN 1 ELSE 0)
    + (IF PhaseBodyRan(o_trace, o_trace') THEN 1 ELSE 0)

\* The number of completion calls issued in this step.
CompletionsIssued ==
    (IF t_calls' = t_calls + 1 THEN 1 ELSE 0)
    + (IF s_calls' = s_calls + 1 THEN 1 ELSE 0)
    + (IF e_calls' = e_calls + 1 THEN 1 ELSE 0)

\* C30: a run executes its phases strictly one after another. No step starts more
\* than one phase body or issues more than one completion call; the phase body that
\* starts is the one the router chose on the merged state; a nested sub-agent run is
\* in progress only while the orchestrator phase that drives it is waiting for it, at
\* most one at a time, and while it waits the orchestrator starts no other phase.
C30_PhasesRunOneAtATime ==
    /\ [](o_pc = "running" =>
            /\ t_pc = "running" => o_sub = "theoretikos"
            /\ s_pc = "running" => o_sub = "bibliographos")
    /\ [][ /\ PhaseBodiesStarted <= 1
           /\ CompletionsIssued <= 1
           /\ PhaseBodyRan(t_trace, t_trace') => t_trace'[Len(t_trace')] = t_node
           /\ PhaseBodyRan(s_trace, s_trace') => s_trace'[Len(s_trace')] = s_node
           /\ PhaseBodyRan(e_trace, e_trace') => e_trace'[Len(e_trace')] = e_node
           /\ PhaseBodyRan(o_trace, o_trace') =>
                 /\ o_trace'[Len(o_trace')] = o_node
                 /\ o_sub = "none"
           /\ (o_sub # "none" /\ o_sub' # "none") =>
                 UNCHANGED <<o_state, o_node, o_trace, o_pc>>
         ]_vars

C30_Witness ==
    /\ o_pc = "running" /\ o_sub = "bibliographos"
    /\ o_trace = <<"route", "bibliographos">>
    /\ s_pc = "running" /\ s_trace = <<"search", "extract">> /\ s_node = "validate"
    /\ s_calls = 2
    /\ t_pc = "idle"

----------------------------------------------------------------------------
(* Properties of single dialogue and edit runs (DialogueSpec, EditSpec).   *)

\* C31: a chat call on a state whose phase is already end runs the clarify phase
\* once and stops, whatever thesis and objections the state holds: the only phase the
\* run executes is clarify, with one completion call; no second phase is scheduled;
\* and when the completion succeeds the run returns with exactly one assistant
\* message appended after the user turn.
C31_EndedStateRunsClarifyOnce ==
    (t_pc # "idle" /\ t_prior.phase = "end") =>
        /\ t_trace \in {<<>>, <<"clarify">>}
        /\ t_calls = Len(t_trace)
        /\ t_pc # "limit"
        /\ t_pc = "running" => (t_trace = <<>> /\ t_node = "clarify")
        /\ t_trace # <<>> =>
              \/ t_pc = "raised" /\ t_err \in GatewayErrors /\ t_state = t_arg
              \/ /\ t_pc = "returned"
                 /\ Len(t_state.messages) = Len(t_prior.messages) + 2
                 /\ t_state.messages[Len(t_prior.messages) + 1] = Message("user", t_input)
                 /\ t_state.messages[Len(t_prior.messages) + 2].role = "assistant"
                 /\ t_state.objections = t_prior.objections
                 /\ t_state.refinements = t_prior.refinements

C31_Witness ==
    /\ t_pc = "returned"
    /\ t_prior.phase = "end"
    /\ t_prior.thesis = <<"A">>
    /\ Len(t_prior.objections) = 1
    /\ t_trace = <<"clarify">>
    /\ t_calls = 1
    /\ Len(t_state.messages) = Len(t_prior.messages) + 2

\* The number of challenge phases at the end of a trace.
RECURSIVE TrailingChallenges(_)
TrailingChallenges(trace) ==
    IF trace = <<>> \/ trace[Len(trace)] # "challenge" THEN 0
    ELSE 1 + TrailingChallenges(SubSeq(trace, 1, Len(trace) - 1))

\* C32: the synthesize phase body runs only on a state with at least 3 objections,
\* and the challenge phases that ran since the round was entered from clarify with k
\* objections number max(1, 3 - k); each challenge phase whose completion succeeds
\* appends exactly one objection, the reply, at the end of the list.
C32_ChallengeRoundLength ==
    [][ /\ (PhaseBodyRan(t_trace, t_trace') /\ t_trace'[Len(t_trace')] = "synthesize") =>
              LET n == TrailingChallenges(t_trace)
                  k == Len(t_state.objections) - n
              IN /\ Len(t_state.objections) >= 3
                 /\ n = IF 3 - k > 1 THEN 3 - k ELSE 1
                 /\ t_trace[Len(t_trace) - n] = "clarify"
        /\ (PhaseBodyRan(t_trace, t_trace') /\ t_trace'[Len(t_trace')] = "challenge"
               /\ c_last'.ok) =>
              t_state'.objections = Append(t_state.objections, c_last'.reply)
      ]_vars

C32_Witness ==
    /\ t_trace = <<"clarify", "challenge", "challenge", "challenge", "synthesize">>
    /\ t_arg.objections = <<>>
    /\ Len(t_state.objections) = 3
    /\ t_state.refinements # <<>>

\* The keys of a DialogueState on which two states differ.
ChangedKeys(before, after) ==
    {key \in {"messages", "phase", "thesis", "objections", "refinements"} :
        before[key] # after[key]}

\* C33: no phase body of the dialogue graph changes thesis or phase. A clarify phase
\* changes only messages, a challenge phase only messages and objections, a
\* synthesize phase only messages and refinements; so during a chat run, and in the
\* state it returns, phase and thesis are those the run was started with.
C33_PhaseBodiesKeepThesisAndPhase ==
    /\ [](t_pc \in {"running", "returned", "raised", "limit"} =>
             /\ t_state.phase = t_arg.phase
             /\ t_state.thesis = t_arg.thesis)
    /\ [][ PhaseBodyRan(t_trace, t_trace') =>
             LET node == t_trace'[Len(t_trace')]
                 changed == ChangedKeys(t_state, t_state')
             IN /\ node = "clarify" => changed \subseteq {"messages"}
                /\ node = "challenge" => changed \subseteq {"messages", "objections"}
                /\ node = "synthesize" => changed \subseteq {"messages", "refinements"}
                /\ c_last'.ok => "messages" \in changed
         ]_vars

C33_Witness ==
    /\ t_pc = "running"
    /\ t_trace = <<"clarify", "challenge", "challenge", "challenge", "synthesize">>
    /\ t_node = "clarify"
    /\ t_state.phase = "challenge"
    /\ t_arg.phase = "challenge"
    /\ t_state.thesis = <<"B">>
    /\ t_prior.thesis = <<>>

\* The phase sequences of an edit run whose completions all succeed.
EditRuns ==
    {<<"analyze", "repair">>, <<"analyze", "edit">>, <<"analyze", "edit", "repair">>}

----------------------------------------------------------------------------
(* Properties of orchestrator calls threaded from the default state        *)
(* (AgentsSpec).                                                           *)

\* C35: over Orchestrator.chat calls that start from the default state and hand each
\* returned state to the next call, the route phase always leaves active_agent as
\* theoretikos or bibliographos and the run never ends straight after route; the
\* bibliographos phase, and the search run it starts, are entered only with a
\* pending_search that is a non-empty text; and pending_search is None in every
\* returned state.
C35_RouteNeverEndsAndSearchIsPending ==
    /\ (o_pc # "idle" /\ o_trace # <<>>) =>
          /\ o_state.active_agent \in {"theoretikos", "bibliographos"}
          /\ o_trace # <<"route">> => o_trace[2] = o_state.active_agent
    /\ (o_pc = "running" /\ o_trace # <<>>) => o_node # "end"
    /\ o_pc = "returned" =>
          /\ Len(o_trace) >= 2
          /\ o_state.pending_search = NoQuery
    /\ (o_pc = "running" /\ o_node = "bibliographos") =>
          /\ o_state.pending_search.some
          /\ o_state.pending_search.text # <<>>
    /\ (o_pc = "running" /\ o_sub = "bibliographos") =>
          /\ s_pc # "idle"
          /\ s_arg.query # <<>>
          /\ s_arg.query = o_state.pending_search.text

C35_Witness ==
    /\ o_pc = "returned"
    /\ o_trace = <<"route", "bibliographos", "integrate">>
    /\ Len(o_prior.messages) >= 2
    /\ o_prior.search_results # <<>>
    /\ o_state.pending_search = NoQuery
    /\ o_state.active_agent = "bibliographos"

----------------------------------------------------------------------------
(* Properties of the chunks one stream() call delivers (GatewaySpec).      *)

\* C36: the chunks a stream() call has delivered to its consumer all come from one
\* underlying completion stream: no two of them were yielded in different iterations
\* of the retry loop.
C36_ChunksComeFromOneStream ==
    g_kind = "stream" =>
        \A i, j \in 1..Len(g_from) : g_from[i] = g_from[j]

----------------------------------------------------------------------------
(* Properties of the caller's state object after a failed call             *)
(* (AgentsSpec).                                                           *)

\* C37: the user turn is written to the state object the caller passed before the
\* graph runs and stays there when the call raises a gateway error: the object's
\* messages are the prior messages and the new user message, with query or thesis as
\* set at entry, and nothing of the run; a chat call repeated with the same input on
\* that object puts the same user message in the history a second time.
C37_UserTurnStaysAfterFailure ==
    /\ [](/\ (t_pc = "raised" /\ t_err \in GatewayErrors) =>
               /\ t_arg.messages = Append(t_prior.messages, Message("user", t_input))
               /\ t_arg.thesis = t_state.thesis
               /\ t_arg.objections = t_prior.objections
               /\ t_arg.refinements = t_prior.refinements
          /\ (s_pc = "raised" /\ s_err \in GatewayErrors) =>
               /\ s_arg.messages = Append(s_prior.messages, Message("user", s_arg.query))
               /\ s_arg.query = s_state.query
               /\ s_arg.bib_entries = s_prior.bib_entries
          /\ (o_pc = "raised" /\ o_err \in GatewayErrors) =>
               /\ o_arg.messages = Append(o_prior.messages, Message("user", o_input))
               /\ LET again == OrchestratorPrepare(o_arg, o_input).messages
                      n == Len(o_prior.messages)
                  IN /\ Len(again) = n + 2
                     /\ again[n + 1] = Message("user", o_input)
                     /\ again[n + 2] = Message("user", o_input))
    /\ [][ (t_pc = "raised" /\ t_err \in GatewayErrors /\ t_pc' = "running"
               /\ t_input' = t_input /\ o_pc = "idle") =>
              t_arg'.messages =
                  t_prior.messages \o <<Message("user", t_input), Message("user", t_input)>>
         ]_vars

C37_Witness ==
    /\ t_pc = "raised"
    /\ t_err = "NetworkError"
    /\ t_trace = <<"clarify">>
    /\ o_pc = "idle"
    /\ t_arg.messages = <<Message("user", <<"h", "i">>), Message("user", <<"h", "i">>)>>
    /\ t_prior.messages = <<Message("user", <<"h", "i">>)>>
    /\ t_input = <<"h", "i">>

----------------------------------------------------------------------------
(* Properties of the thesis recorded through the orchestrator              *)
(* (OrchestratorSpec).                                                     *)

\* The context line _theoretikos_node puts before the injected search results.
InjectedMarker ==
    <<"[", "A", "v", "a", "i", "l", "a", "b", "l", "e", " ", "s", "o", "u", "r", "c",
        "e", "s", " ", "f", "r", "o", "m", " ", "l", "i", "t", "e", "r", "a", "t", "u",
        "r", "e", " ", "s", "e", "a", "r", "c", "h", "]">>

\* C38: the thesis the dialogue agent records is text the user typed. When the
\* orchestrator has delegated a dialogue turn whose input contains "thesis:", with
\* search results to inject and no thesis recorded before, the thesis in the dialogue
\* state (the one handed to chat and the one embedded in the orchestrator's state) is
\* part of the user's input and contains nothing of the injected context.
C38_ThesisIsUserText ==
    (/\ o_pc # "idle"
     /\ Len(o_trace) = 2 /\ o_trace[2] = "theoretikos"
     /\ o_prior.search_results # <<>>
     /\ t_prior.thesis = <<>>
     /\ Contains(Lower(o_input), ThesisMarker)) =>
        /\ ~Contains(t_arg.thesis, InjectedMarker)
        /\ Contains(o_input, t_arg.thesis)
        /\ o_state.dialogue_state # EmptyMapping =>
              ~Contains(o_state.dialogue_state.thesis, InjectedMarker)

----------------------------------------------------------------------------
(* Properties of a turn of an interactive session (SessionSpec).           *)

\* How many messages of a list equal a given message.
Count(messages, message) ==
    Cardinality({i \in 1..Len(messages) : messages[i] = message})

\* A completed turn has added one user and one assistant message.
TurnAddsOneExchange ==
    n_pc = "done" =>
        n_state.messages =
            n_prior.messages \o <<Message("user", n_input), Message("assistant", n_text)>>

\* C39: in every turn of the chat, search and research sessions the message list
\* sent to the model holds the current user input once as a history message (one
\* more occurrence than the history held before the turn), and after a turn that
\* completed the session's messages are the earlier ones, one user message with the
\* input and one assistant message with the reply.
C39_TurnSendsInputOnce ==
    /\ n_pc \in {"streaming", "done", "raised"} =>
          Count(n_sent, Message("user", n_input))
              = Count(n_prior.messages, Message("user", n_input)) + 1
    /\ TurnAddsOneExchange

====
